---------------------------- MODULE Spec2Model ----------------------------
(***************************************************************************)
(* A model of the udev client library (cr8t/udev): entry lists, the hwdb   *)
(* trie query engine, the enumerator's matchers, the device-id factory,    *)
(* the sysattr read-through and the netlink monitor.                       *)
(*                                                                         *)
(* Strings are sequences of characters; a character is a one-token string  *)
(* ("a", "[", "NUL").  Each component has its own specification            *)
(* (SpecList, SpecHwdb, ...); the variables of the other components stay   *)
(* at their idle value.                                                    *)
(***************************************************************************)
EXTENDS Integers, Sequences, FiniteSets, TLC

VARIABLES
    ulist,      \* list.rs: the UdevList under test (list, unique)
    last_add,   \* history: name -> value of the most recent add_entry ("-" if none)
    hw,         \* hwdb.rs: UdevHwdb (hwdb_buf, properties_list) and the last query
    did,        \* device.rs: a device, its sysfs, its ID and the device looked up by the ID
    sa,         \* device.rs: a device, its sysfs attributes and the calls of get_sysattr_value
    en,         \* enumerate.rs: an enumerator, the file system it scans and its last scan
    mon,        \* monitor.rs: one UdevMonitor, its socket and the frames queued on it
    nh,         \* monitor.rs: a UdevMonitorNetlinkHeader, its bytes on the wire and their parse
    enc,        \* util/device_nodes.rs: one name and its encodings
    rd,         \* device.rs: a device and its persistent record file
    mh,         \* murmur_hash.rs: one string and its hash
    rs,         \* hwdb.rs: the size globals and two readers
    bf,         \* monitor.rs: the filter lists, the program filter_update attached and a frame it judged
    pf,         \* monitor.rs: the filter lists, a device and what passes_filter said of it
    pb,         \* device.rs: a device, its properties and what get_properties_monitor_buf returned
    ue,         \* device.rs: a device from a syspath and the getters called on it
    ul          \* device.rs: the read loop of read_uevent_file, pass by pass

vars == <<ulist, last_add, hw, did, sa, en, mon, nh, enc, rd, mh, rs, bf, pf, pb, ue, ul>>

\* ------------------------------------------------------------------ bounds

\* Longest modalias queried.
MaxModalias == 3
\* Most add_entry calls made on one list.
MaxAdds == 4
\* Longest modalias of a query that follows another query.
MaxRequery == 1
\* Longest basename of a device path.
MaxBasename == 3
\* Most entries over the filter lists of an enumerator.
MaxMatches == 2
\* Most syspaths added to an enumerator by hand.
MaxDevices == 2
\* Most frames queued on the monitor socket.
MaxQueue == 2
\* Most entries in each filter list of a monitor.
MaxFilters == 1
\* Most frames a sender puts on the monitor socket in one burst.
MaxBurst == 1025

\* Longest name handed to encode_devnode_name, in characters.
MaxName == 3

\* Most lines of a persistent record file.
MaxLines == 2

\* Longest string hashed, in bytes.
MaxKey == 5

\* Most nodes one hwdb reader decodes.
MaxDecodes == 2

\* ----------------------------------------------------------------- helpers

Ok(v) == [ok |-> TRUE, val |-> v]
Err == [ok |-> FALSE, val |-> <<>>]

\* Body of v: names a value that is then used more than once.
Let(v, Body(_)) == Body(v)

\* All sequences over S of length 0..n.
RECURSIVE SeqsUpTo(_, _)
SeqsUpTo(S, n) ==
    IF n = 0 THEN {<<>>}
    ELSE LET shorter == SeqsUpTo(S, n - 1)
         IN shorter \cup {Append(s, c) : s \in {t \in shorter : Len(t) = n - 1}, c \in S}

\* The byte value of a character (ASCII).
CharCode(c) ==
    CASE c = "NUL" -> 0
      [] c = "!" -> 33
      [] c = " " -> 32
      [] c = "#" -> 35
      [] c = "(" -> 40
      [] c = "0" -> 48
      [] c = "1" -> 49
      [] c = "2" -> 50
      [] c = "3" -> 51
      [] c = "4" -> 52
      [] c = "5" -> 53
      [] c = "6" -> 54
      [] c = "7" -> 55
      [] c = "8" -> 56
      [] c = "9" -> 57
      [] c = "Z" -> 90
      [] c = "\\" -> 92
      [] c = "_" -> 95
      [] c = "e" -> 101
      [] c = "f" -> 102
      [] c = "U+1F496" -> 128150
      [] c = "xca" -> 202
      [] c = "xed" -> 237
      [] c = "xfe" -> 254
      [] c = "*" -> 42
      [] c = "-" -> 45
      [] c = "/" -> 47
      [] c = ":" -> 58
      [] c = "?" -> 63
      [] c = "[" -> 91
      [] c = "]" -> 93
      [] c = "a" -> 97
      [] c = "b" -> 98
      [] c = "c" -> 99
      [] c = "d" -> 100
      [] OTHER -> 120

\* s[k..] of a Rust slice (k counted from 0); the caller checks k <= Len(s).
SliceFrom(s, k) == SubSeq(s, k + 1, Len(s))

\* ------------------------------------------------------------ list.rs

UdevEntry_new(name, value) == [name |-> name, value |-> value, num |-> 0]

\* UdevList::new and UdevList::create: no entry, not unique.
UdevList_new == [list |-> <<>>, unique |-> FALSE]

\* UdevList::clear
UdevList_clear(l) == [l EXCEPT !.list = <<>>]

\* Index of the first entry named `name`, 0 if there is none (entry_by_name).
entry_by_name_idx(l, name) ==
    IF \E k \in 1..Len(l.list) : l.list[k].name = name
    THEN CHOOSE k \in 1..Len(l.list) :
            /\ l.list[k].name = name
            /\ \A j \in 1..(k - 1) : l.list[j].name # name
    ELSE 0

\* A plausible slip: unique mode appends like non-unique mode.
add_entry_always_append(l, name, value) ==
    [l EXCEPT !.list = Append(l.list, UdevEntry_new(name, value))]

\* UdevList::add_entry: in unique mode the first entry of that name gets the
\* value, otherwise (no such entry, or not unique) the entry is pushed back.
add_entry(l, name, value) ==
    IF l.unique
    THEN LET k == entry_by_name_idx(l, name)
         IN IF k # 0
            THEN [l EXCEPT !.list[k].value = value]
            ELSE [l EXCEPT !.list = Append(l.list, UdevEntry_new(name, value))]
    ELSE [l EXCEPT !.list = Append(l.list, UdevEntry_new(name, value))]

\* UdevList::entry: the front of the list, if any.
UdevList_entry(l) == IF Len(l.list) = 0 THEN Err ELSE Ok(l.list[1])

\* --------------------------------------------- glob::Pattern (crate glob)

is_separator(c) == c = "/"

\* First index j >= i (counted from 0) with chars[j] # "*", Len(chars) if none.
RECURSIVE SkipStars(_, _)
SkipStars(chars, i) ==
    IF i < Len(chars) /\ chars[i + 1] = "*" THEN SkipStars(chars, i + 1) ELSE i

\* Position (from 0) of the first c in s at or after k, -1 if none.
RECURSIVE PositionOf(_, _, _)
PositionOf(s, c, k) ==
    IF k >= Len(s) THEN -1
    ELSE IF s[k + 1] = c THEN k
    ELSE PositionOf(s, c, k + 1)

\* Pattern::new: the token sequence, or Err for an unclosed "[", for "***"
\* and for a "**" that is not a whole path component.
RECURSIVE glob_parse(_, _, _)
glob_parse(chars, i, tokens) ==
    IF i >= Len(chars) THEN Ok(tokens)
    ELSE
    LET c == chars[i + 1] IN
    CASE c = "?" -> glob_parse(chars, i + 1, Append(tokens, [t |-> "AnyChar"]))
      [] c = "*" ->
            LET j == SkipStars(chars, i)
                count == j - i
            IN  IF count > 2 THEN Err
                ELSE IF count = 2
                THEN IF j = 2 \/ is_separator(chars[i])
                     THEN IF j < Len(chars) /\ is_separator(chars[j + 1])
                          THEN glob_parse(chars, j + 1,
                                   Append(tokens, [t |-> "AnyRecursiveSequence"]))
                          ELSE IF j = Len(chars)
                          THEN glob_parse(chars, j,
                                   Append(tokens, [t |-> "AnyRecursiveSequence"]))
                          ELSE Err
                     ELSE Err
                ELSE glob_parse(chars, j, Append(tokens, [t |-> "AnySequence"]))
      [] c = "[" ->
            IF i + 4 <= Len(chars) /\ chars[i + 2] = "!"
            THEN LET j == PositionOf(SliceFrom(chars, i + 3), "]", 0)
                 IN  IF j < 0 THEN Err
                     ELSE glob_parse(chars, i + j + 4,
                              Append(tokens, [t |-> "AnyExcept",
                                              cs |-> SubSeq(chars, i + 3, i + 3 + j)]))
            ELSE IF i + 3 <= Len(chars) /\ chars[i + 2] # "!"
            THEN LET j == PositionOf(SliceFrom(chars, i + 2), "]", 0)
                 IN  IF j < 0 THEN Err
                     ELSE glob_parse(chars, i + j + 3,
                              Append(tokens, [t |-> "AnyWithin",
                                              cs |-> SubSeq(chars, i + 2, i + 2 + j)]))
            ELSE Err
      [] OTHER -> glob_parse(chars, i + 1, Append(tokens, [t |-> "Char", c |-> c]))

\* in_char_specifiers over parse_char_specifiers: "x-y" is a range, any other
\* character stands for itself.
RECURSIVE in_char_specifiers(_, _, _)
in_char_specifiers(cs, i, c) ==
    IF i >= Len(cs) THEN FALSE
    ELSE IF i + 3 <= Len(cs) /\ cs[i + 2] = "-"
    THEN \/ (CharCode(cs[i + 1]) <= CharCode(c) /\ CharCode(c) <= CharCode(cs[i + 3]))
         \/ in_char_specifiers(cs, i + 3, c)
    ELSE cs[i + 1] = c \/ in_char_specifiers(cs, i + 1, c)

\* Pattern::matches_from with the default MatchOptions: do tokens[ti..] match
\* file[fi..] entirely?
RECURSIVE matches_from(_, _, _, _)
matches_from(tokens, ti, file, fi) ==
    IF ti >= Len(tokens) THEN fi = Len(file)
    ELSE
    LET tok == tokens[ti + 1] IN
    CASE tok.t = "AnySequence" ->
            \E k \in fi..Len(file) : matches_from(tokens, ti + 1, file, k)
      [] tok.t = "AnyRecursiveSequence" ->
            \E k \in fi..Len(file) :
                /\ k = fi \/ k = Len(file) \/ is_separator(file[k])
                /\ matches_from(tokens, ti + 1, file, k)
      [] OTHER ->
            /\ fi < Len(file)
            /\ CASE tok.t = "AnyChar" -> TRUE
                 [] tok.t = "AnyWithin" -> in_char_specifiers(tok.cs, 0, file[fi + 1])
                 [] tok.t = "AnyExcept" -> ~in_char_specifiers(tok.cs, 0, file[fi + 1])
                 [] OTHER -> tok.c = file[fi + 1]
            /\ matches_from(tokens, ti + 1, file, fi + 1)

\* glob::Pattern::new(pattern)
Pattern_new(pattern) == glob_parse(pattern, 0, <<>>)

\* Pattern::matches(str)
Pattern_matches(tokens, str) == matches_from(tokens, 0, str, 0)

\* ------------------------------------------------------------ hwdb/line.rs

\* Maximum length for a file line.
LINE_MAX == 4096

\* LineBuf::add: append val unless the line would exceed LINE_MAX.
LineBuf_add(bytes, val) ==
    IF Len(bytes) + Len(val) > LINE_MAX THEN Err ELSE Ok(bytes \o val)

\* LineBuf::add_char
LineBuf_add_char(bytes, c) == LineBuf_add(bytes, <<c>>)

\* LineBuf::remove: drop the last count bytes, all of them if count >= len.
LineBuf_remove(bytes, count) ==
    IF count >= Len(bytes) THEN <<>> ELSE SubSeq(bytes, 1, Len(bytes) - count)

\* LineBuf::remove_char
LineBuf_remove_char(bytes) == LineBuf_remove(bytes, 1)

\* ------------------------------------------------------------ hwdb/trie

\* trie_string: the string stored at offset, up to its NUL; an offset outside
\* the buffer is an error.  hwdb_buf.strings maps the offset of every string
\* of the strings section to its characters.
trie_string(hwdb_buf, offset) ==
    IF offset < hwdb_buf.len /\ offset \in DOMAIN hwdb_buf.strings
    THEN Ok(hwdb_buf.strings[offset])
    ELSE Err

\* children.sort(): the child entries in ascending order of c (TrieChildEntry
\* orders by c alone).
RECURSIVE SortChildren(_)
SortChildren(children) ==
    IF Len(children) <= 1 THEN children
    ELSE LET m == CHOOSE k \in 1..Len(children) :
                     /\ \A j \in 1..Len(children) :
                            CharCode(children[k].c) <= CharCode(children[j].c)
                     /\ \A j \in 1..(k - 1) :
                            CharCode(children[j].c) # CharCode(children[k].c)
             rest == [j \in 1..(Len(children) - 1) |->
                         IF j < m THEN children[j] ELSE children[j + 1]]
         IN <<children[m]>> \o SortChildren(rest)

\* TryFrom<&[u8]> for TrieEntry at hwdb_buf[off..]: the node with its children
\* (sorted) and values.  hwdb_buf.nodes maps the offset of every node of the
\* nodes section to its decoded fields.
TrieEntry_try_from(hwdb_buf, off) ==
    IF off \in DOMAIN hwdb_buf.nodes
    THEN Ok([node |-> [prefix_off |-> hwdb_buf.nodes[off].prefix_off],
             children |-> SortChildren(hwdb_buf.nodes[off].children),
             values |-> hwdb_buf.nodes[off].values])
    ELSE Err

\* A lookup with its answer (None is ok = FALSE), the offsets a node was
\* decoded at and the offsets of child entries that were not followed.
Looked(r, read, refused) ==
    [ok |-> r.ok, val |-> r.val, read |-> read, refused |-> refused]

\* TrieEntry::lookup_child without the range test of the child offset.
lookup_child_unchecked(entry, hwdb_buf, c) ==
    IF \E k \in 1..Len(entry.children) : entry.children[k].c = c
    THEN LET k == CHOOSE k \in 1..Len(entry.children) : entry.children[k].c = c
             child_off == entry.children[k].child_off
         IN  Looked(TrieEntry_try_from(hwdb_buf, child_off), {child_off}, {})
    ELSE Looked(Err, {}, {})

\* TrieEntry::lookup_child: binary search for the child labelled c; the child
\* node is decoded only if its offset lies inside the buffer.
lookup_child(entry, hwdb_buf, c) ==
    IF \E k \in 1..Len(entry.children) : entry.children[k].c = c
    THEN LET k == CHOOSE k \in 1..Len(entry.children) : entry.children[k].c = c
             child_off == entry.children[k].child_off
         IN  IF child_off < hwdb_buf.len
             THEN Looked(TrieEntry_try_from(hwdb_buf, child_off), {child_off}, {})
             ELSE Looked(Err, {}, {child_off})
    ELSE Looked(Err, {}, {})

\* ------------------------------------------------------------ hwdb.rs

\* strip_prefix(' ')
strip_space(key) == IF Len(key) > 0 /\ key[1] = " " THEN Ok(Tail(key)) ELSE Err

\* UdevHwdb::_add_property: a key that starts with a space is added to the
\* list without it, any other key is ignored.
hwdb_add_property(list, key, value) ==
    LET nkey == strip_space(key)
    IN  IF nkey.ok THEN add_entry(list, nkey.val, value) ELSE list

\* The walk's state: the line buffer, the property list, and whether an error
\* has been raised (the `?` of the source returns at once); with them the
\* offsets the walk has decoded a node at (TrieEntry::try_from) and the
\* offsets of the child entries it has met and not followed.
WalkState(bytes, list, status) ==
    [bytes |-> bytes, list |-> list, status |-> status, decoded |-> {}, refused |-> {}]

\* The walk after a lookup.
Visited(st, looked) ==
    [st EXCEPT !.decoded = @ \cup looked.read, !.refused = @ \cup looked.refused]

\* for value in entry.values(): _add_property(key string, value string)
RECURSIVE add_values(_, _, _, _)
add_values(st, hwdb_buf, values, k) ==
    IF st.status # "ok" \/ k > Len(values) THEN st
    ELSE LET key_str == trie_string(hwdb_buf, values[k].key_off)
             val_str == trie_string(hwdb_buf, values[k].value_off)
         IN  IF ~key_str.ok \/ ~val_str.ok
             THEN [st EXCEPT !.status = "err"]
             ELSE add_values(
                      [st EXCEPT !.list = hwdb_add_property(st.list, key_str.val, val_str.val)],
                      hwdb_buf, values, k + 1)

RECURSIVE trie_fnmatch(_, _, _, _, _)
RECURSIVE fnmatch_children(_, _, _, _, _)

\* The loop over entry.children() of trie_fnmatch: a child whose offset lies
\* inside the buffer is decoded and descended into, with its label appended
\* to the line for the descent.
fnmatch_children(st, hwdb_buf, children, k, search) ==
    IF st.status # "ok" \/ k > Len(children) THEN st
    ELSE
    LET child == children[k] IN
    IF child.child_off < hwdb_buf.len
    THEN LET added == LineBuf_add_char(st.bytes, child.c)
             entry == TrieEntry_try_from(hwdb_buf, child.child_off)
         IN  IF ~added.ok \/ ~entry.ok THEN [st EXCEPT !.status = "err"]
             ELSE Let(trie_fnmatch([st EXCEPT !.bytes = added.val,
                                              !.decoded = @ \cup {child.child_off}],
                                   hwdb_buf, entry.val, 0, search),
                      LAMBDA st1 :
                      IF st1.status # "ok" THEN st1
                      ELSE fnmatch_children(
                               [st1 EXCEPT !.bytes = LineBuf_remove_char(st1.bytes)],
                               hwdb_buf, children, k + 1, search))
    ELSE fnmatch_children([st EXCEPT !.refused = @ \cup {child.child_off}],
                          hwdb_buf, children, k + 1, search)

\* LineBuf::trie_fnmatch: append prefix[p..] to the line, descend into every
\* child, then compile the line as a glob (an invalid glob is an error) and,
\* if it matches search, add the node's values; at last shrink the line.
trie_fnmatch(st, hwdb_buf, entry, p, search) ==
    LET prefix_r == trie_string(hwdb_buf, entry.node.prefix_off) IN
    IF ~prefix_r.ok THEN [st EXCEPT !.status = "err"]
    ELSE
    LET prefix == prefix_r.val
        prefix_len == Len(prefix)
        start == p
        nul == PositionOf(SliceFrom(prefix, p), "NUL", 0)
        end == IF nul >= 0 THEN nul ELSE prefix_len
        added == IF start <= prefix_len /\ prefix_len <= end
                 THEN LineBuf_add(st.bytes, SubSeq(prefix, start + 1, end))
                 ELSE Ok(st.bytes)
    IN
    IF ~added.ok THEN [st EXCEPT !.status = "err"]
    ELSE
    Let(fnmatch_children([st EXCEPT !.bytes = added.val],
                         hwdb_buf, entry.children, 1, search),
        LAMBDA st1 :
        IF st1.status # "ok" THEN st1
        ELSE Let(Pattern_new(st1.bytes), LAMBDA pattern :
             IF ~pattern.ok THEN [st1 EXCEPT !.status = "err"]
             ELSE Let(IF Pattern_matches(pattern.val, search)
                      THEN add_values(st1, hwdb_buf, entry.values, 1)
                      ELSE st1,
                      LAMBDA st2 :
                      IF st2.status # "ok" THEN st2
                      ELSE [st2 EXCEPT !.bytes =
                                LineBuf_remove(st2.bytes,
                                               IF end >= start THEN end - start ELSE 0)])))

\* The walk over the node's prefix in trie_search, from position p: "glob" at
\* the first metacharacter, "mismatch" at the first character that differs
\* from search[i + p], "matched" at the end of the prefix.
RECURSIVE prefix_walk(_, _, _, _)
prefix_walk(ts, p, search, i) ==
    IF p >= Len(ts) THEN [kind |-> "matched", p |-> p]
    ELSE LET c == ts[p + 1] IN
         IF c = "*" \/ c = "?" \/ c = "["
         THEN [kind |-> "glob", p |-> p]
         ELSE IF ~(i + p < Len(search) /\ search[i + p + 1] = c)
         THEN [kind |-> "mismatch", p |-> p]
         ELSE prefix_walk(ts, p + 1, search, i)

\* for wildcard in [b'*', b'?', b'[']: descend into the child of that label,
\* if the node has one, with the label on the line.
RECURSIVE wildcard_children(_, _, _, _, _, _)
wildcard_children(st, hwdb_buf, n, wildcards, search, i) ==
    IF st.status # "ok" \/ Len(wildcards) = 0 THEN st
    ELSE
    LET wildcard == Head(wildcards)
        child == lookup_child(n, hwdb_buf, wildcard)
    IN
    IF child.ok
    THEN LET added == LineBuf_add_char(st.bytes, wildcard) IN
         IF ~added.ok THEN [st EXCEPT !.status = "err"]
         ELSE IF i > Len(search) THEN [st EXCEPT !.status = "panic"]
         ELSE Let(trie_fnmatch([Visited(st, child) EXCEPT !.bytes = added.val],
                               hwdb_buf, child.val, 0, SliceFrom(search, i)),
                  LAMBDA st1 :
                  IF st1.status # "ok" THEN st1
                  ELSE wildcard_children(
                           [st1 EXCEPT !.bytes = LineBuf_remove_char(st1.bytes)],
                           hwdb_buf, n, Tail(wildcards), search, i))
    ELSE wildcard_children(Visited(st, child), hwdb_buf, n, Tail(wildcards), search, i)

\* A plausible slip: the node's values are emitted when the character at i
\* is anything but NUL.
at_search_end_not_nul(search, i) == ~(i < Len(search) /\ search[i + 1] = "NUL")

\* search.chars().nth(i) == Some('\0'), the test that guards the emission of
\* the values of the node the radix walk stands on.
at_search_end(search, i) == i < Len(search) /\ search[i + 1] = "NUL"

\* The while loop of trie_search, standing on node n with i characters of
\* search consumed.
RECURSIVE search_loop(_, _, _, _, _)
search_loop(st, hwdb_buf, n, search, i) ==
    LET ts == IF n.node.prefix_off > 0
              THEN trie_string(hwdb_buf, n.node.prefix_off)
              ELSE Ok(<<>>)
    IN
    IF ~ts.ok THEN [st EXCEPT !.status = "err"]
    ELSE
    LET w == prefix_walk(ts.val, 0, search, i) IN
    IF w.kind = "glob"
    THEN IF i + w.p > Len(search) THEN [st EXCEPT !.status = "panic"]
         ELSE trie_fnmatch(st, hwdb_buf, n, w.p, SliceFrom(search, i + w.p))
    ELSE IF w.kind = "mismatch" THEN st
    ELSE
    LET i1 == i + Len(ts.val) IN
    Let(wildcard_children(st, hwdb_buf, n, <<"*", "?", "[">>, search, i1),
        LAMBDA st1 :
        IF st1.status # "ok" THEN st1
        ELSE Let(IF at_search_end(search, i1)
                 THEN add_values(st1, hwdb_buf, n.values, 1)
                 ELSE st1,
                 LAMBDA st2 :
                 IF st2.status # "ok" THEN st2
                 ELSE Let(lookup_child(n, hwdb_buf,
                                       IF i1 < Len(search) THEN search[i1 + 1] ELSE "NUL"),
                          LAMBDA next :
                          IF next.ok
                          THEN search_loop(Visited(st2, next), hwdb_buf, next.val, search, i1 + 1)
                          ELSE Visited(st2, next))))

\* UdevHwdb::trie_search from the root node named by the header.
trie_search(list, head, hwdb_buf, search) ==
    LET node == IF head.nodes_root_off < hwdb_buf.len
                THEN Looked(TrieEntry_try_from(hwdb_buf, head.nodes_root_off),
                            {head.nodes_root_off}, {})
                ELSE Looked(Err, {}, {head.nodes_root_off})
        st == Visited(WalkState(<<>>, list, "ok"), node)
    IN  IF node.ok THEN search_loop(st, hwdb_buf, node.val, search, 0) ELSE st

\* UdevHwdb::get_properties_list_entry and query: clear the list, search, and
\* answer None on an error or an empty list, else the list.
\* The result: ret ("None" or "Some") and the properties list left behind.
query(h, modalias) ==
    Let(trie_search(UdevList_clear(h.properties_list), h.head, h.hwdb_buf, modalias),
        LAMBDA st :
        [ret |-> IF st.status = "ok" /\ UdevList_entry(st.list).ok THEN "Some" ELSE "None",
         status |-> st.status,
         decoded |-> st.decoded,
         refused |-> st.refused,
         properties_list |-> st.list])

\* The statics NODE_SIZE, CHILD_ENTRY_SIZE and VALUE_ENTRY_SIZE, as first
\* initialised.
SizeGlobals == [node_size |-> 24, child_entry_size |-> 16, value_entry_size |-> 32]

\* set_node_size, set_child_entry_size, set_value_entry_size: one atomic store.
set_node_size(g, val) == [g EXCEPT !.node_size = val]
set_child_entry_size(g, val) == [g EXCEPT !.child_entry_size = val]
set_value_entry_size(g, val) == [g EXCEPT !.value_entry_size = val]

\* node_size, child_entry_size, value_entry_size: one atomic load.
node_size(g) == g.node_size
child_entry_size(g) == g.child_entry_size
value_entry_size(g) == g.value_entry_size

\* ------------------------------------------------------------ databases

\* The encoded records of the nodes section: TrieNode with its child entries
\* and value entries.
TrieChildEntry(c, child_off) == [c |-> c, child_off |-> child_off]
TrieValueEntry(key_off, value_off) == [key_off |-> key_off, value_off |-> value_off]
TrieNode(prefix_off, children, values) ==
    [prefix_off |-> prefix_off, children |-> children, values |-> values]

\* A database file read into memory: its header's root offset and its bytes,
\* as the nodes and the strings found at their offsets.
Hwdb(nodes_root_off, len, nodes, strings) ==
    [head |-> [nodes_root_off |-> nodes_root_off],
     hwdb_buf |-> [len |-> len, nodes |-> nodes, strings |-> strings]]

\* Two entries, one pattern a prefix of the other, as usb:v1D6B* and
\* usb:v1D6Bp0003* of the test database:
\*   ab*    ID_VENDOR_FROM_DATABASE=Linux Foundation
\*   abc*   ID_MODEL_FROM_DATABASE=3.0 root hub
DbPrefix ==
    Hwdb(248, 400,
         (80 :> TrieNode(288, <<>>, <<TrieValueEntry(293, 318)>>))
      @@ (136 :> TrieNode(291, <<>>, <<TrieValueEntry(335, 359)>>))
      @@ (192 :> TrieNode(289, <<TrieChildEntry("*", 80), TrieChildEntry("c", 136)>>, <<>>))
      @@ (248 :> TrieNode(288, <<TrieChildEntry("a", 192)>>, <<>>)),
         (288 :> <<>>)
      @@ (289 :> <<"b">>)
      @@ (291 :> <<"*">>)
      @@ (293 :> <<" ", "ID_VENDOR_FROM_DATABASE">>)
      @@ (318 :> <<"Linux Foundation">>)
      @@ (335 :> <<" ", "ID_MODEL_FROM_DATABASE">>)
      @@ (359 :> <<"3.0 root hub">>))

\* Two entries whose patterns part inside a bracket expression:
\*   a[bc]  ID_VENDOR_FROM_DATABASE=Linux Foundation
\*   a[bd]  ID_MODEL_FROM_DATABASE=3.0 root hub
DbBracket ==
    Hwdb(248, 400,
         (80 :> TrieNode(291, <<>>, <<TrieValueEntry(293, 318)>>))
      @@ (136 :> TrieNode(291, <<>>, <<TrieValueEntry(335, 359)>>))
      @@ (192 :> TrieNode(288, <<TrieChildEntry("c", 80), TrieChildEntry("d", 136)>>, <<>>))
      @@ (248 :> TrieNode(287, <<TrieChildEntry("a", 192)>>, <<>>)),
         (287 :> <<>>)
      @@ (288 :> <<"[", "b">>)
      @@ (291 :> <<"]">>)
      @@ (293 :> <<" ", "ID_VENDOR_FROM_DATABASE">>)
      @@ (318 :> <<"Linux Foundation">>)
      @@ (335 :> <<" ", "ID_MODEL_FROM_DATABASE">>)
      @@ (359 :> <<"3.0 root hub">>))

\* A literal entry and an entry that starts with a bracket expression:
\*   ab     ID_VENDOR_FROM_DATABASE=Linux Foundation
\*   [b]*   ID_MODEL_FROM_DATABASE=3.0 root hub
DbLiteral ==
    Hwdb(192, 400,
         (80 :> TrieNode(249, <<>>, <<TrieValueEntry(255, 280)>>))
      @@ (136 :> TrieNode(251, <<>>, <<TrieValueEntry(297, 321)>>))
      @@ (192 :> TrieNode(248, <<TrieChildEntry("[", 136), TrieChildEntry("a", 80)>>, <<>>)),
         (248 :> <<>>)
      @@ (249 :> <<"b">>)
      @@ (251 :> <<"b", "]", "*">>)
      @@ (255 :> <<" ", "ID_VENDOR_FROM_DATABASE">>)
      @@ (280 :> <<"Linux Foundation">>)
      @@ (297 :> <<" ", "ID_MODEL_FROM_DATABASE">>)
      @@ (321 :> <<"3.0 root hub">>))

\* Two entries that set the same key, one pattern a prefix of the other:
\*   ab*    ID_VENDOR_FROM_DATABASE=Linux Foundation
\*   abc*   ID_VENDOR_FROM_DATABASE=3.0 root hub
DbSameKey ==
    [DbPrefix EXCEPT !.hwdb_buf.nodes[136] = TrieNode(291, <<>>, <<TrieValueEntry(293, 359)>>)]

Databases == {DbPrefix, DbBracket, DbLiteral, DbSameKey}

\* A damaged file: the entries of DbPrefix, with child entries that point at
\* the end of the buffer or past it, under the node of a literal prefix (the
\* labels c, ? and b) and under the node of a glob (the label d).
\*   ab*    ID_VENDOR_FROM_DATABASE=Linux Foundation
DbDangling ==
    Hwdb(248, 400,
         (80 :> TrieNode(288, <<TrieChildEntry("d", 400)>>, <<TrieValueEntry(293, 318)>>))
      @@ (192 :> TrieNode(289, <<TrieChildEntry("*", 80), TrieChildEntry("?", 4000),
                                 TrieChildEntry("c", 1000)>>, <<>>))
      @@ (248 :> TrieNode(288, <<TrieChildEntry("a", 192), TrieChildEntry("b", 401)>>, <<>>)),
         (288 :> <<>>)
      @@ (289 :> <<"b">>)
      @@ (293 :> <<" ", "ID_VENDOR_FROM_DATABASE">>)
      @@ (318 :> <<"Linux Foundation">>))

\* A damaged file whose header points past the end of the buffer.
DbNoRoot == [DbDangling EXCEPT !.head.nodes_root_off = 400]

DamagedDatabases == {DbDangling, DbNoRoot, DbPrefix}

\* The entries a database stores: for every value of every node, the pattern
\* spelled by the path from the root (prefixes and child labels), the key
\* without its leading space, and the value.
RECURSIVE stored_under(_, _, _)
stored_under(hwdb_buf, off, path) ==
    LET n == hwdb_buf.nodes[off]
        full == path \o hwdb_buf.strings[n.prefix_off]
    IN  {[pattern |-> full,
          name |-> Tail(hwdb_buf.strings[n.values[k].key_off]),
          value |-> hwdb_buf.strings[n.values[k].value_off]] : k \in 1..Len(n.values)}
        \cup UNION {stored_under(hwdb_buf, n.children[k].child_off,
                                 Append(full, n.children[k].c)) : k \in 1..Len(n.children)}

stored_entries(db) == stored_under(db.hwdb_buf, db.head.nodes_root_off, <<>>)

\* The pattern has a glob metacharacter.
is_glob(pattern) == \E k \in 1..Len(pattern) : pattern[k] \in {"*", "?", "["}

\* Shell-glob matching of a stored pattern against a modalias.
glob_matches(pattern, m) ==
    LET compiled == Pattern_new(pattern)
    IN  compiled.ok /\ Pattern_matches(compiled.val, m)

\* The characters modaliases are drawn from, and the modaliases queried.
ModaliasChars == {"a", "b", "c", "[", "]", "*", "NUL"}
Modaliases == SeqsUpTo(ModaliasChars, MaxModalias)

\* The (name, value) pairs of a list.
list_pairs(l) == {<<l.list[k].name, l.list[k].value>> : k \in 1..Len(l.list)}

\* ------------------------------------------------------------ strings and numbers

Some(v) == [some |-> TRUE, val |-> v]
None == [some |-> FALSE, val |-> <<>>]

\* str::starts_with
starts_with(s, prefix) ==
    Len(s) >= Len(prefix) /\ SubSeq(s, 1, Len(prefix)) = prefix

\* str::strip_prefix
strip_prefix(s, prefix) ==
    IF starts_with(s, prefix) THEN Ok(SliceFrom(s, Len(prefix))) ELSE Err

\* str::split(sep): the pieces between the separators, in order.
RECURSIVE split(_, _)
split(s, sep) ==
    LET k == PositionOf(s, sep, 0)
    IN  IF k < 0 THEN <<s>>
        ELSE <<SubSeq(s, 1, k)>> \o split(SliceFrom(s, k + 1), sep)

\* str::rsplit(sep).next(): the piece after the last separator.
rsplit_first(s, sep) == LET pieces == split(s, sep) IN pieces[Len(pieces)]

DigitChars == <<"0", "1", "2", "3", "4", "5", "6", "7", "8", "9">>

is_digit(c) == \E d \in 1..10 : DigitChars[d] = c

digit_value(c) == (CHOOSE d \in 1..10 : DigitChars[d] = c) - 1

\* Display for unsigned integers: the decimal digits, no padding.
RECURSIVE to_string(_)
to_string(n) ==
    IF n < 10 THEN <<DigitChars[n + 1]>>
    ELSE Append(to_string(n \div 10), DigitChars[(n % 10) + 1])

RECURSIVE digits_value(_, _)
digits_value(s, acc) ==
    IF Len(s) = 0 THEN acc ELSE digits_value(Tail(s), acc * 10 + digit_value(Head(s)))

RECURSIVE strip_zeros(_)
strip_zeros(s) == IF Len(s) > 1 /\ Head(s) = "0" THEN strip_zeros(Tail(s)) ELSE s

\* The most decimal digits a number the model parses may carry; every u32 and
\* i32 of that many digits is in range.
MaxDigits == 9

\* str::parse::<u32>(): an optional "+", then one or more digits.
parse_u32(s) ==
    LET digits == IF Len(s) > 0 /\ Head(s) = "+" THEN Tail(s) ELSE s
    IN  IF Len(digits) = 0 \/ \E k \in 1..Len(digits) : ~is_digit(digits[k]) THEN Err
        ELSE IF Len(strip_zeros(digits)) > MaxDigits THEN Err
        ELSE Ok(digits_value(digits, 0))

\* str::parse::<i32>(): an optional sign, then one or more digits.
parse_i32(s) ==
    LET signed == Len(s) > 0 /\ Head(s) \in {"+", "-"}
        digits == IF signed THEN Tail(s) ELSE s
    IN  IF Len(digits) = 0 \/ \E k \in 1..Len(digits) : ~is_digit(digits[k]) THEN Err
        ELSE IF Len(strip_zeros(digits)) > MaxDigits THEN Err
        ELSE Ok(IF signed /\ Head(s) = "-" THEN 0 - digits_value(digits, 0)
                ELSE digits_value(digits, 0))

\* ------------------------------------------------------------ util.rs

\* libc::makedev(major, minor)
makedev(maj, min) ==
    ((maj \div 4096) * 4096) * 65536 * 65536
        + (maj % 4096) * 256
        + ((min \div 256) * 256) * 4096
        + (min % 256)

\* util::major: the major bits of the device number, cut to 16 bits by the
\* cast to u16.
major(dev) ==
    (((((dev \div 65536) \div 65536) \div 4096) * 4096) + ((dev \div 256) % 4096)) % 65536

\* util::minor: the minor bits of the device number, cut to 16 bits by the
\* cast to u16.
minor(dev) ==
    ((((dev \div 4096) \div 256) * 256) + (dev % 256)) % 65536

\* ------------------------------------------------------------ murmur_hash.rs

\* A u32 is held as its four bytes, the least significant first.
u32_of(n) == <<n % 256, (n \div 256) % 256, (n \div 65536) % 256, n \div 16777216>>

\* The upper and the lower 16 bits of a u32.
hi16(a) == a[3] + 256 * a[4]
lo16(a) == a[1] + 256 * a[2]
u32_halves(hi, lo) == <<lo % 256, lo \div 256, hi % 256, hi \div 256>>

Pow2(n) == IF n = 0 THEN 1 ELSE 2 ^ n

\* x ^ y on n-bit numbers.
RECURSIVE xor_bits(_, _, _)
xor_bits(x, y, n) ==
    IF n = 0 THEN 0
    ELSE ((x + y) % 2) + 2 * xor_bits(x \div 2, y \div 2, n - 1)

\* a ^ b on u32
xor32(a, b) == [i \in 1..4 |-> xor_bits(a[i], b[i], 8)]

\* a >> n on u32, 0 < n < 32
shr32(a, n) ==
    IF n >= 16 THEN u32_halves(0, hi16(a) \div Pow2(n - 16))
    ELSE u32_halves(hi16(a) \div Pow2(n),
                    (lo16(a) \div Pow2(n)) + (hi16(a) % Pow2(n)) * Pow2(16 - n))

\* (byte as u32) << n, for n a multiple of 8
byte_shl(b, n) == [i \in 1..4 |-> IF i = (n \div 8) + 1 THEN b ELSE 0]

\* The 64-bit product of two u32, as eight bytes: column n sums the products
\* of the bytes whose places add up to n, and the carries ripple upwards.
mul_column(a, b, n) ==
    LET term(i) == IF n - i \in 0..3 THEN a[i + 1] * b[n - i + 1] ELSE 0
    IN  term(0) + term(1) + term(2) + term(3)

RECURSIVE mul_bytes(_, _, _, _)
mul_bytes(a, b, n, carry) ==
    IF n = 7 THEN <<carry % 256>>
    ELSE <<(mul_column(a, b, n) + carry) % 256>>
             \o mul_bytes(a, b, n + 1, (mul_column(a, b, n) + carry) \div 256)

\* u32::wrapping_mul: the product modulo 2^32.
wrapping_mul(a, b) == SubSeq(mul_bytes(a, b, 0, 0), 1, 4)

\* u32::saturating_mul: the product, or u32::MAX if it does not fit.
saturating_mul(a, b) ==
    IF SubSeq(mul_bytes(a, b, 0, 0), 5, 8) = <<0, 0, 0, 0>>
    THEN SubSeq(mul_bytes(a, b, 0, 0), 1, 4)
    ELSE <<255, 255, 255, 255>>

\* const M: u32 = 0x5bd1e995
MURMUR_M == <<149, 233, 209, 91>>
\* const R: u32 = 24
MURMUR_R == 24

\* u32::from_ne_bytes on a target of the given byte order.
from_ne_bytes(data, endian) ==
    IF endian = "little" THEN data ELSE <<data[4], data[3], data[2], data[1]>>

\* The body of key.chunks_exact(4).for_each: one block mixed into h.
mix_chunk(h, data, endian) ==
    Let(saturating_mul(from_ne_bytes(data, endian), MURMUR_M), LAMBDA k1 :
    Let(xor32(k1, shr32(k1, MURMUR_R)), LAMBDA k2 :
        xor32(saturating_mul(h, MURMUR_M), saturating_mul(k2, MURMUR_M))))

\* key.chunks_exact(4).for_each(..), from the block that starts at byte i.
RECURSIVE mix_chunks(_, _, _, _)
mix_chunks(h, key, i, endian) ==
    IF i + 4 > Len(key) THEN h
    ELSE mix_chunks(mix_chunk(h, SubSeq(key, i + 1, i + 4), endian), key, i + 4, endian)

\* match mod_len: the last few bytes of the key.
mix_tail(h, key) ==
    LET key_len == Len(key)
        mod_len == key_len % 4
    IN  CASE mod_len = 3 ->
                xor32(xor32(xor32(h, byte_shl(key[key_len], 16)),
                            byte_shl(key[key_len - 1], 8)),
                      byte_shl(key[key_len - 2], 0))
          [] mod_len = 2 ->
                xor32(xor32(h, byte_shl(key[key_len], 8)), byte_shl(key[key_len - 1], 0))
          [] mod_len = 1 -> xor32(h, byte_shl(key[key_len], 0))
          [] OTHER -> h

\* murmur_hash2
murmur_hash2(key, seed, endian) ==
    Let(mix_tail(mix_chunks(xor32(seed, u32_of(Len(key))), key, 0, endian), key),
        LAMBDA h1 :
    Let(saturating_mul(h1, MURMUR_M), LAMBDA h2 :
    Let(xor32(h2, shr32(h2, 13)), LAMBDA h3 :
    Let(saturating_mul(h3, MURMUR_M), LAMBDA h4 :
        xor32(h4, shr32(h4, 15))))))

\* str::as_bytes of a string of ASCII characters.
as_bytes(s) == [k \in 1..Len(s) |-> CharCode(s[k])]

\* util::string_hash32
string_hash32(s, endian) == murmur_hash2(as_bytes(s), u32_of(0), endian)

\* util::string_bloom64: the numbers of the bits set in the u64.
string_bloom64(s, endian) ==
    Let(string_hash32(s, endian), LAMBDA hash :
        {lo16(hash) % 64,
         lo16(shr32(hash, 6)) % 64,
         lo16(shr32(hash, 12)) % 64,
         lo16(shr32(hash, 18)) % 64})

\* x & y on n-bit numbers.
RECURSIVE and_bits(_, _, _)
and_bits(x, y, n) ==
    IF n = 0 THEN 0
    ELSE ((x % 2) * (y % 2)) + 2 * and_bits(x \div 2, y \div 2, n - 1)

\* a & b on u32
and32(a, b) == [i \in 1..4 |-> and_bits(a[i], b[i], 8)]

\* The u32 whose set bits are the numbers in S (0 is the lowest bit).
bits_u32(S) ==
    [i \in 1..4 |->
        LET bit(j) == IF (8 * (i - 1) + j) \in S THEN Pow2(j) ELSE 0
        IN  bit(0) + bit(1) + bit(2) + bit(3) + bit(4) + bit(5) + bit(6) + bit(7)]

\* ------------------------------------------------------------ util/device_nodes.rs

\* char::len_utf8
len_utf8(c) ==
    IF CharCode(c) < 128 THEN 1
    ELSE IF CharCode(c) < 2048 THEN 2
    ELSE IF CharCode(c) < 65536 THEN 3
    ELSE 4

\* whitelisted_char_for_devnode whatever the character: the table a caller
\* gets who passes every character as `white`.
whitelisted_char_permissive(c, white) == TRUE

\* whitelisted_char_for_devnode
whitelisted_char_for_devnode(c, white) ==
    \/ (48 <= CharCode(c) /\ CharCode(c) <= 57)
    \/ (65 <= CharCode(c) /\ CharCode(c) <= 90)
    \/ (97 <= CharCode(c) /\ CharCode(c) <= 122)
    \/ CharCode(c) \in {35, 43, 45, 46, 58, 61, 64, 95}
    \/ \E k \in 1..Len(white) : white[k] = c

\* One digit of format!("{:x}").
hex_digit(n) ==
    <<"0", "1", "2", "3", "4", "5", "6", "7", "8", "9", "a", "b", "c", "d", "e", "f">>[n + 1]

\* format!("\\x{:02x}", c as u8)
hex_escape(c) ==
    <<"\\", "x", hex_digit((CharCode(c) % 256) \div 16), hex_digit(CharCode(c) % 16)>>

\* arg.find('\0').unwrap_or(arg_len), counted from 0.
null_pos(arg) ==
    IF \E k \in 1..Len(arg) : arg[k] = "NUL"
    THEN (CHOOSE k \in 1..Len(arg) :
            /\ arg[k] = "NUL"
            /\ \A j \in 1..(k - 1) : arg[j] # "NUL") - 1
    ELSE Len(arg)

\* The loop of encode_devnode_name over arg[..null_pos], from character i on.
RECURSIVE encode_chars(_, _, _)
encode_chars(s, i, ret) ==
    IF i > Len(s) THEN ret
    ELSE IF len_utf8(s[i]) > 1 THEN encode_chars(s, i + 1, Append(ret, s[i]))
    ELSE IF s[i] = "\\" \/ ~whitelisted_char_for_devnode(s[i], <<>>)
         THEN encode_chars(s, i + 1, ret \o hex_escape(s[i]))
    ELSE encode_chars(s, i + 1, Append(ret, s[i]))

\* encode_devnode_name
encode_devnode_name(arg) ==
    IF Len(arg) = 0 THEN Err
    ELSE Ok(encode_chars(SubSeq(arg, 1, null_pos(arg)), 1, <<>>))

\* ------------------------------------------------------------ device.rs

\* The sysfs a device function sees is a record:
\*   exists          the device directories fs::metadata and File::open succeed on
\*   attrs           path -> what lies at <syspath>/<attribute>: a file (size,
\*                   S_IRUSR, content, whether read succeeds), a directory,
\*                   or a symbolic link (its target, whether it resolves)
\*   ifname          ifindex -> interface name (SIOCGIFNAME)
\*   uevent          syspath -> the lines of <syspath>/uevent

STR_subsystem == <<"s", "u", "b", "s", "y", "s", "t", "e", "m">>
STR_module == <<"m", "o", "d", "u", "l", "e">>
STR_drivers == <<"d", "r", "i", "v", "e", "r", "s">>
STR_block == <<"b", "l", "o", "c", "k">>
STR_net == <<"n", "e", "t">>

\* UdevDevice::new
UdevDevice_new ==
    [syspath |-> <<>>, devpath |-> <<>>, sysname |-> <<>>, subsystem |-> <<>>,
     devtype |-> <<>>, devnode |-> <<>>, devnode_mode |-> 0, id_filename |-> <<>>,
     properties_list |-> UdevList_new, sysattr_value_list |-> UdevList_new,
     tags_list |-> UdevList_new, devlinks_list |-> UdevList_new,
     devnum |-> 0, ifindex |-> 0,
     devlink_priority |-> 0, watch_handle |-> 0, usec_initialized |-> 0,
     info_loaded |-> FALSE, uevent_loaded |-> FALSE, db_loaded |-> FALSE,
     is_initialized |-> FALSE,
     envp |-> <<>>, monitor_buf |-> <<>>, envp_uptodate |-> FALSE]

\* UdevDevice::new_from_syspath
new_from_syspath(sysfs, syspath) ==
    IF Len(syspath) = 0 THEN Err
    ELSE IF ~starts_with(syspath, <<"/", "s", "y", "s">>) THEN Err
    ELSE IF starts_with(syspath, <<"/", "s", "y", "s", "/">>)
    THEN LET path == SliceFrom(syspath, 5)
             uevent_path == syspath \o <<"/", "u", "e", "v", "e", "n", "t">>
         IN  IF starts_with(path, <<"/", "d", "e", "v", "i", "c", "e", "s", "/">>)
             THEN IF uevent_path \in sysfs.exists
                  THEN Ok([UdevDevice_new EXCEPT !.syspath = uevent_path])
                  ELSE Err
             ELSE Ok([UdevDevice_new EXCEPT !.syspath = syspath])
    ELSE Err

\* UdevDevice::new_from_devnum
new_from_devnum(sysfs, devtype, devnum) ==
    IF starts_with(devtype, <<"b">>) \/ starts_with(devtype, <<"c">>)
    THEN new_from_syspath(sysfs,
             <<"/", "s", "y", "s", "/", "d", "e", "v", "/">>
             \o (IF starts_with(devtype, <<"b">>) THEN <<"b", "l", "o", "c", "k">> ELSE <<"c", "h", "a", "r">>)
             \o <<"/">>
             \o to_string(major(devnum)) \o <<":">> \o to_string(minor(devnum)))
    ELSE Err

\* The first of the candidate paths that exists.
first_existing(sysfs, candidates) ==
    IF \E k \in 1..Len(candidates) : candidates[k] \in sysfs.exists
    THEN Ok(candidates[CHOOSE k \in 1..Len(candidates) :
                           /\ candidates[k] \in sysfs.exists
                           /\ \A j \in 1..(k - 1) : candidates[j] \notin sysfs.exists])
    ELSE Err

\* UdevDevice::new_from_subsystem_sysname
new_from_subsystem_sysname(sysfs, subsystem, sysname) ==
    LET path ==
          IF subsystem = STR_subsystem
          THEN first_existing(sysfs, << <<"/", "s", "y", "s", "/", "s", "u", "b", "s", "y", "s", "t", "e", "m", "/">> \o sysname,
                                        <<"/", "s", "y", "s", "/", "b", "u", "s", "/">> \o sysname,
                                        <<"/", "s", "y", "s", "/", "c", "l", "a", "s", "s", "/">> \o sysname >>)
          ELSE IF subsystem = STR_module
          THEN first_existing(sysfs, << <<"/", "s", "y", "s", "/", "m", "o", "d", "u", "l", "e", "/">> \o sysname >>)
          ELSE IF subsystem = STR_drivers
          THEN LET pieces == split(sysname, ":") IN
               IF Len(pieces) >= 3
               THEN first_existing(sysfs,
                        << <<"/", "s", "y", "s", "/", "s", "u", "b", "s", "y", "s", "t", "e", "m", "/">> \o sysname
                               \o <<"/", "d", "r", "i", "v", "e", "r", "s", "/">> \o pieces[3],
                           <<"/", "s", "y", "s", "/", "b", "u", "s", "/">> \o sysname
                               \o <<"/", "d", "r", "i", "v", "e", "r", "s", "/">> \o pieces[3] >>)
               ELSE Err
          ELSE first_existing(sysfs,
                   << <<"/", "s", "y", "s", "/", "s", "u", "b", "s", "y", "s", "t", "e", "m", "/">> \o subsystem
                          \o <<"/", "d", "e", "v", "i", "c", "e", "s", "/">> \o sysname,
                      <<"/", "s", "y", "s", "/", "b", "u", "s", "/">> \o subsystem
                          \o <<"/", "d", "e", "v", "i", "c", "e", "s", "/">> \o sysname,
                      <<"/", "s", "y", "s", "/", "c", "l", "a", "s", "s", "/">> \o subsystem \o <<"/">> \o sysname >>)
    IN  IF path.ok THEN new_from_syspath(sysfs, path.val) ELSE Err

\* str::trim_end_matches(c)
RECURSIVE trim_end_matches(_, _)
trim_end_matches(s, c) ==
    IF Len(s) > 0 /\ s[Len(s)] = c THEN trim_end_matches(SubSeq(s, 1, Len(s) - 1), c) ELSE s

\* UdevList::remove_entry: split the list at the first entry named name; what
\* follows a removed entry is put back only if something follows it.
remove_entry(l, name) ==
    LET pos == entry_by_name_idx(l, name) IN
    IF pos = 0 THEN l
    ELSE IF Len(l.list) - pos + 1 > 1
    THEN [l EXCEPT !.list = SubSeq(l.list, 1, pos - 1) \o SubSeq(l.list, pos + 1, Len(l.list))]
    ELSE [l EXCEPT !.list = SubSeq(l.list, 1, pos - 1)]

\* A plausible slip: the list is changed, envp_uptodate is left as it is.
add_property_internal_keeps_uptodate(dev, key, value) ==
    IF Len(key) = 0 THEN dev
    ELSE IF Len(value) = 0
    THEN [dev EXCEPT !.properties_list = remove_entry(dev.properties_list, key)]
    ELSE [dev EXCEPT !.properties_list = add_entry(dev.properties_list, key, value)]

\* UdevDevice::add_property_internal
add_property_internal(dev, key, value) ==
    IF Len(key) = 0 THEN dev
    ELSE IF Len(value) = 0
    THEN [dev EXCEPT !.envp_uptodate = FALSE,
                     !.properties_list = remove_entry(dev.properties_list, key)]
    ELSE [dev EXCEPT !.envp_uptodate = FALSE,
                     !.properties_list = add_entry(dev.properties_list, key, value)]

\* const ENVP_LEN
ENVP_LEN == 128

\* The strings strs[lo..hi] put one behind the other.
RECURSIVE concat_all(_, _, _)
concat_all(strs, lo, hi) ==
    IF lo > hi THEN <<>>
    ELSE IF lo = hi THEN strs[lo]
    ELSE concat_all(strs, lo, (lo + hi) \div 2) \o concat_all(strs, ((lo + hi) \div 2) + 1, hi)

\* properties_list.iter().filter(|e| !e.name().starts_with('.')).enumerate()
\* .take(ENVP_LEN): the entries the loop of update_envp_monitor_buf visits.
envp_entries(entries) ==
    Let(SelectSeq(entries, LAMBDA e : ~starts_with(e.name, <<".">>)), LAMBDA public :
        SubSeq(public, 1, IF Len(public) < ENVP_LEN THEN Len(public) ELSE ENVP_LEN))

\* UdevDevice::update_envp_monitor_buf
update_envp_monitor_buf(dev) ==
    Let(envp_entries(dev.properties_list.list), LAMBDA taken :
    Let([i \in 1..Len(taken) |-> taken[i].name \o <<"=">> \o taken[i].value], LAMBDA envp :
        [dev EXCEPT !.envp = envp,
                    !.monitor_buf = concat_all([i \in 1..Len(envp) |-> envp[i] \o <<"NUL">>],
                                               1, Len(envp)),
                    !.envp_uptodate = TRUE]))

\* UdevDevice::get_properties_monitor_buf: [ret, dev]
get_properties_monitor_buf(dev) ==
    Let(IF ~dev.envp_uptodate THEN update_envp_monitor_buf(dev) ELSE dev, LAMBDA d :
        [ret |-> d.monitor_buf, dev |-> d])

\* UdevDevice::add_property_from_string: name and value are the first two
\* pieces of the string split at "=".
add_property_from_string(dev, property) ==
    LET pieces == split(property, "=")
    IN  add_property_internal(dev, pieces[1],
                              IF Len(pieces) >= 2 THEN pieces[2] ELSE <<>>)

RECURSIVE octal_value(_, _)
octal_value(s, acc) ==
    IF Len(s) = 0 THEN acc ELSE octal_value(Tail(s), acc * 8 + digit_value(Head(s)))

\* u32::from_str_radix(s, 8)
parse_octal(s) ==
    LET digits == IF Len(s) > 0 /\ Head(s) = "+" THEN Tail(s) ELSE s
    IN  IF Len(digits) = 0
           \/ \E k \in 1..Len(digits) : ~(is_digit(digits[k]) /\ digit_value(digits[k]) < 8)
        THEN Err
        ELSE IF Len(strip_zeros(digits)) > MaxDigits THEN Err
        ELSE Ok(octal_value(digits, 0))

unwrap_or(r, default) == IF r.ok THEN r.val ELSE default

\* One pass through the body of the read loop of read_uevent_file.  lines
\* are the lines of the file not read yet (each with its "LF"), line is the
\* String that read_line appends to and that is never cleared.  ctl tells how
\* the body is left: by `continue`, by `break`, or at its end ("next").
uevent_iteration(dev, lines, line, maj, min) ==
    LET read == IF Len(lines) = 0 THEN 0 ELSE Len(Head(lines))
        line1 == IF Len(lines) = 0 THEN line ELSE line \o Head(lines)
        rest == IF Len(lines) = 0 THEN lines ELSE Tail(lines)
        tline == trim_end_matches(line1, "LF")
        devtype == strip_prefix(tline, <<"D", "E", "V", "T", "Y", "P", "E", "=">>)
        ifindex == strip_prefix(tline, <<"I", "F", "I", "N", "D", "E", "X", "=">>)
        devname == strip_prefix(tline, <<"D", "E", "V", "N", "A", "M", "E", "=">>)
        major_s == strip_prefix(tline, <<"M", "A", "J", "O", "R", "=">>)
        minor_s == strip_prefix(tline, <<"M", "I", "N", "O", "R", "=">>)
        devmode == strip_prefix(tline, <<"D", "E", "V", "M", "O", "D", "E", "=">>)
        continue(d) == [dev |-> d, lines |-> rest, line |-> line1, maj |-> maj, min |-> min,
                        read |-> read, ctl |-> "continue"]
    IN
    IF devtype.ok THEN continue([dev EXCEPT !.devtype = devtype.val])
    ELSE IF ifindex.ok
    THEN continue([dev EXCEPT !.ifindex = unwrap_or(parse_i32(ifindex.val), 0)])
    ELSE IF devname.ok THEN continue([dev EXCEPT !.devnode = devname.val])
    ELSE
    LET maj1 == IF major_s.ok THEN unwrap_or(parse_u32(major_s.val), 0) ELSE maj
        min1 == IF ~major_s.ok /\ minor_s.ok
                THEN unwrap_or(parse_u32(minor_s.val), 0) ELSE min
        dev1 == IF ~major_s.ok /\ ~minor_s.ok /\ devmode.ok
                THEN [dev EXCEPT !.devnode_mode = unwrap_or(parse_octal(devmode.val), 0)]
                ELSE dev
        dev2 == add_property_from_string(dev1, tline)
    IN  [dev |-> dev2, lines |-> rest, line |-> line1, maj |-> maj1, min |-> min1,
         read |-> read, ctl |-> IF read = 0 THEN "break" ELSE "next"]

\* The read loop of read_uevent_file and the set_devnum behind it.  The loop
\* ends at the first read of 0 bytes that reaches the end of the body; a
\* `continue` at the end of the file repeats the same iteration for ever.
RECURSIVE uevent_loop(_, _, _, _, _)
uevent_loop(dev, lines, line, maj, min) ==
    Let(uevent_iteration(dev, lines, line, maj, min), LAMBDA it :
        IF it.ctl = "break"
        THEN [dev |-> [it.dev EXCEPT !.devnum = makedev(it.maj, it.min)], status |-> "ok"]
        ELSE IF it.read = 0 THEN [dev |-> it.dev, status |-> "diverges"]
        ELSE uevent_loop(it.dev, it.lines, it.line, it.maj, it.min))

\* UdevDevice::read_uevent_file: nothing is read unless uevent_loaded is
\* already set.  opened tells whether the file was opened.
read_uevent_file(sysfs, dev) ==
    IF ~dev.uevent_loaded THEN [dev |-> dev, status |-> "ok", opened |-> FALSE]
    ELSE IF dev.syspath \notin DOMAIN sysfs.uevent
    THEN [dev |-> dev, status |-> "err", opened |-> FALSE]
    ELSE Let(uevent_loop([dev EXCEPT !.uevent_loaded = TRUE],
                         sysfs.uevent[dev.syspath], <<>>, 0, 0), LAMBDA r :
             [dev |-> r.dev, status |-> r.status, opened |-> TRUE])

\* A getter that found nothing to load.
not_read(dev) == [dev |-> dev, status |-> "ok", opened |-> FALSE]

\* What lies at a path of sysfs.
SysFile(size, rusr, content, read_ok) ==
    [kind |-> "file", size |-> size, rusr |-> rusr, content |-> content,
     read_ok |-> read_ok, target |-> <<>>, resolves |-> TRUE]
SysDir ==
    [kind |-> "dir", size |-> 0, rusr |-> TRUE, content |-> <<>>,
     read_ok |-> FALSE, target |-> <<>>, resolves |-> TRUE]
SysLink(target, resolves) ==
    [kind |-> "link", size |-> 0, rusr |-> TRUE, content |-> <<>>,
     read_ok |-> FALSE, target |-> target, resolves |-> resolves]

\* fs::metadata(path): the metadata of what the path resolves to, symbolic
\* links followed; an error if nothing is there.
fs_metadata(sysfs, path) ==
    IF path \notin DOMAIN sysfs.attrs THEN Err
    ELSE LET a == sysfs.attrs[path] IN
         IF a.kind = "link"
         THEN IF a.resolves
              THEN Ok([is_symlink |-> FALSE, is_dir |-> TRUE, len |-> 0, rusr |-> TRUE])
              ELSE Err
         ELSE Ok([is_symlink |-> FALSE, is_dir |-> a.kind = "dir",
                  len |-> a.size, rusr |-> a.rusr])

\* Udev::get_sys_core_link_value: the basename of the target of the link
\* <syspath>/<slink>.
get_sys_core_link_value(sysfs, slink, syspath) ==
    LET path == syspath \o <<"/">> \o slink IN
    IF path \in DOMAIN sysfs.attrs /\ sysfs.attrs[path].kind = "link"
       /\ Len(sysfs.attrs[path].target) > 0
    THEN Ok(rsplit_first(sysfs.attrs[path].target, "/"))
    ELSE Err

\* min(a, b)
min_of(a, b) == IF a < b THEN a ELSE b

\* UdevDevice::get_sysattr_value: [ret, dev, looked].  looked tells whether
\* the call went to the file system.
get_sysattr_value(sysfs, dev, sysattr) ==
    LET k == entry_by_name_idx(dev.sysattr_value_list, sysattr)
        path == dev.syspath \o <<"/">> \o sysattr
        metadata == fs_metadata(sysfs, path)
        miss(d) == [ret |-> None, dev |-> d, looked |-> TRUE]
    IN
    IF k # 0
    THEN [ret |-> Some(dev.sysattr_value_list.list[k].value), dev |-> dev, looked |-> FALSE]
    ELSE IF ~metadata.ok
    THEN miss([dev EXCEPT !.sysattr_value_list = add_entry(@, sysattr, <<>>)])
    ELSE IF metadata.val.is_symlink
    THEN IF sysattr \in {<<"d", "r", "i", "v", "e", "r">>, STR_subsystem, STR_module}
         THEN LET value == get_sys_core_link_value(sysfs, sysattr, dev.syspath) IN
              IF ~value.ok THEN miss(dev)
              ELSE [ret |-> Some(value.val),
                    dev |-> [dev EXCEPT !.sysattr_value_list = add_entry(@, sysattr, value.val)],
                    looked |-> TRUE]
         ELSE miss(dev)
    ELSE IF metadata.val.is_dir \/ metadata.val.len = 0 \/ ~metadata.val.rusr
    THEN miss(dev)
    ELSE IF ~sysfs.attrs[path].read_ok THEN miss(dev)
    ELSE LET content == sysfs.attrs[path].content
             value_str == SubSeq(content, 1, min_of(Len(content), 4096))
         IN  [ret |-> Some(value_str),
              dev |-> [dev EXCEPT !.sysattr_value_list = add_entry(@, sysattr, value_str)],
              looked |-> TRUE]

\* UdevDevice::get_devnum: [ret, dev], with what read_uevent_file did
get_devnum(sysfs, dev) ==
    Let(IF ~dev.info_loaded THEN read_uevent_file(sysfs, dev) ELSE not_read(dev),
        LAMBDA r : [ret |-> r.dev.devnum, dev |-> r.dev,
                    read_status |-> r.status, opened |-> r.opened])

\* UdevDevice::get_ifindex: [ret, dev], with what read_uevent_file did
get_ifindex(sysfs, dev) ==
    Let(IF ~dev.info_loaded THEN read_uevent_file(sysfs, dev) ELSE not_read(dev),
        LAMBDA r : [ret |-> r.dev.ifindex, dev |-> r.dev,
                    read_status |-> r.status, opened |-> r.opened])

\* UdevDevice::get_devtype: [ret, dev], with what read_uevent_file did
get_devtype(sysfs, dev) ==
    Let(IF Len(dev.devtype) = 0 THEN read_uevent_file(sysfs, dev) ELSE not_read(dev),
        LAMBDA r : [ret |-> r.dev.devtype, dev |-> r.dev,
                    read_status |-> r.status, opened |-> r.opened])

\* UdevDevice::get_devnode: [ret, dev], with what read_uevent_file did
get_devnode(sysfs, dev) ==
    Let(IF Len(dev.devnode) = 0 /\ ~dev.info_loaded
        THEN read_uevent_file(sysfs, dev) ELSE not_read(dev),
        LAMBDA r : [ret |-> r.dev.devnode, dev |-> r.dev,
                    read_status |-> r.status, opened |-> r.opened])

\* UdevDevice::get_subsystem: [ret, dev]
get_subsystem(sysfs, dev) ==
    LET link == get_sys_core_link_value(sysfs, STR_subsystem, dev.syspath)
        d == IF Len(dev.subsystem) = 0
             THEN IF link.ok
                  THEN [dev EXCEPT !.subsystem = link.val]
                  ELSE IF starts_with(dev.devpath, <<"/", "m", "o", "d", "u", "l", "e", "/">>)
                          \/ \E k \in 0..Len(dev.devpath) :
                                starts_with(SliceFrom(dev.devpath, k), <<"/", "d", "r", "i", "v", "e", "r", "s", "/">>)
                  THEN [dev EXCEPT !.subsystem = STR_module]
                  ELSE IF starts_with(dev.devpath, <<"/", "s", "u", "b", "s", "y", "s", "t", "e", "m", "/">>)
                          \/ starts_with(dev.devpath, <<"/", "c", "l", "a", "s", "s", "/">>)
                          \/ starts_with(dev.devpath, <<"/", "b", "u", "s", "/">>)
                  THEN [dev EXCEPT !.subsystem = STR_subsystem]
                  ELSE dev
             ELSE dev
    IN  [ret |-> d.subsystem, dev |-> d]

\* UdevDevice::get_id_filename: [ret, dev].  An ID is built only while
\* id_filename is empty; a call that builds none returns the empty string.
get_id_filename(sysfs, dev) ==
    IF Len(dev.id_filename) # 0 THEN [ret |-> <<>>, dev |-> dev]
    ELSE
    Let(get_subsystem(sysfs, dev), LAMBDA s :
    IF Len(s.ret) = 0 THEN [ret |-> <<>>, dev |-> s.dev]
    ELSE
    Let(get_devnum(sysfs, s.dev), LAMBDA n :
    IF major(n.ret) > 0
    THEN Let(<<IF s.ret = STR_block THEN "b" ELSE "c">>
                 \o to_string(major(n.dev.devnum)) \o <<":">>
                 \o to_string(minor(n.dev.devnum)),
             LAMBDA id : [ret |-> id, dev |-> [n.dev EXCEPT !.id_filename = id]])
    ELSE
    Let(get_ifindex(sysfs, n.dev), LAMBDA i :
    IF i.ret > 0
    THEN Let(<<"n">> \o to_string(i.dev.ifindex),
             LAMBDA id : [ret |-> id, dev |-> [i.dev EXCEPT !.id_filename = id]])
    ELSE Let(<<"+">> \o s.ret \o <<":">> \o rsplit_first(i.dev.devpath, "/"),
             LAMBDA id : [ret |-> id, dev |-> [i.dev EXCEPT !.id_filename = id]]))))

\* The sysname new_from_device_id takes from "+<subsystem>:<sysname>": the
\* second piece of the text after "+", split at every ":".
sysname_of_id(rest) ==
    LET pieces == split(rest, ":") IN IF Len(pieces) >= 2 THEN Ok(pieces[2]) ELSE Err

\* UdevDevice::new_from_device_id
new_from_device_id(sysfs, id) ==
    IF Len(id) = 0 THEN Err
    ELSE IF id[1] \in {"b", "c"}
    THEN LET pieces == split(Tail(id), ":")
             maj == unwrap_or(parse_u32(pieces[1]), 0)
             min == unwrap_or(IF Len(pieces) >= 2 THEN parse_u32(pieces[2]) ELSE Err, 0)
         IN  new_from_devnum(sysfs, <<id[1]>>, makedev(maj, min))
    ELSE IF id[1] = "n"
    THEN LET ifindex == parse_i32(Tail(id)) IN
         IF ~ifindex.ok THEN Err
         ELSE IF ifindex.val \notin DOMAIN sysfs.ifname THEN Err
         ELSE Let(new_from_subsystem_sysname(sysfs, STR_net, sysfs.ifname[ifindex.val]),
                  LAMBDA dev :
                  IF ~dev.ok THEN Err
                  ELSE Let(get_ifindex(sysfs, dev.val),
                           LAMBDA i : IF i.ret = ifindex.val THEN Ok(i.dev) ELSE Err))
    ELSE IF id[1] = "+"
    THEN LET pieces == split(Tail(id), ":")
             sysname == sysname_of_id(Tail(id))
         IN  IF ~sysname.ok THEN Err
             ELSE new_from_subsystem_sysname(sysfs, pieces[1], sysname.val)
    ELSE Err

\* str::parse::<u64>(): as parse::<u32>() for numbers of up to MaxDigits digits.
parse_u64(s) == parse_u32(s)

\* UdevDevice::add_devlink
add_devlink(dev, devlink) ==
    [dev EXCEPT !.devlinks_list = add_entry(dev.devlinks_list, devlink, <<>>)]

\* UdevDevice::is_valid_tag
is_valid_tag(tag) == ~\E k \in 1..Len(tag) : tag[k] \in {":", " "}

\* UdevDevice::add_tag
add_tag(dev, tag) ==
    IF is_valid_tag(tag)
    THEN Ok([dev EXCEPT !.tags_list = add_entry(dev.tags_list, tag, <<>>)])
    ELSE Err

\* entry.set_num(1) on the last entry of the properties list, if there is one.
mark_last_property(dev) ==
    IF Len(dev.properties_list.list) = 0 THEN dev
    ELSE [dev EXCEPT !.properties_list.list[Len(dev.properties_list.list)].num = 1]

\* The match on the first character of val in read_db: what the line does
\* to the device, and whether the loop breaks.
read_db_line(dev, val) ==
    CASE val[1] = "S" ->
            [ok |-> TRUE, brk |-> TRUE, dev |-> add_devlink(dev, <<"/", "d", "e", "v", "/">> \o val)]
      [] val[1] = "L" ->
            [ok |-> TRUE, brk |-> TRUE,
             dev |-> [dev EXCEPT !.devlink_priority = unwrap_or(parse_i32(val), 0)]]
      [] val[1] = "E" ->
            [ok |-> TRUE, brk |-> TRUE,
             dev |-> LET pieces == split(val, "=")
                         added == add_property_from_string(dev, val)
                     IN  IF Len(pieces[1]) > 0 /\ Len(pieces) >= 2 /\ Len(pieces[2]) > 0
                         THEN mark_last_property(added)
                         ELSE added]
      [] val[1] = "G" ->
            [ok |-> add_tag(dev, val).ok, brk |-> TRUE,
             dev |-> IF add_tag(dev, val).ok THEN add_tag(dev, val).val ELSE dev]
      [] val[1] = "W" ->
            [ok |-> TRUE, brk |-> TRUE,
             dev |-> [dev EXCEPT !.watch_handle = unwrap_or(parse_i32(val), 0)]]
      [] val[1] = "I" ->
            [ok |-> TRUE, brk |-> TRUE,
             dev |-> [dev EXCEPT !.usec_initialized = unwrap_or(parse_u64(val), 0)]]
      [] OTHER -> [ok |-> TRUE, brk |-> FALSE, dev |-> dev]

\* The while loop of read_db: read_line appends the k-th line of the file to
\* `line`, which is not cleared between the reads; a read of less than four
\* bytes (the end of the file is a read of none) ends the loop.
RECURSIVE read_db_loop(_, _, _, _)
read_db_loop(dev, lines, k, line) ==
    IF k > Len(lines) \/ Len(lines[k]) < 4 THEN Ok(dev)
    ELSE Let(read_db_line(dev, SliceFrom(line \o lines[k], 2)), LAMBDA r :
             IF ~r.ok THEN Err
             ELSE IF r.brk THEN Ok(r.dev)
             ELSE read_db_loop(r.dev, lines, k + 1, line \o lines[k]))

\* UdevDevice::read_db: [ok, dev].  files maps the path of every file that
\* can be opened to its lines, each with its line feed.
read_db(sysfs, dev, files) ==
    Let(get_id_filename(sysfs, dev), LAMBDA id :
        IF id.dev.db_loaded THEN [ok |-> TRUE, dev |-> id.dev]
        ELSE IF Len(id.ret) = 0 THEN [ok |-> FALSE, dev |-> id.dev]
        ELSE IF (<<"/", "u", "d", "e", "v", "/", "d", "a", "t", "a", "/">> \o id.ret) \notin DOMAIN files
        THEN [ok |-> FALSE, dev |-> id.dev]
        ELSE Let(read_db_loop([id.dev EXCEPT !.is_initialized = TRUE],
                              files[<<"/", "u", "d", "e", "v", "/", "d", "a", "t", "a", "/">> \o id.ret], 1, <<>>),
                 LAMBDA r :
                 [ok |-> r.ok,
                  dev |-> IF r.ok THEN r.val ELSE [id.dev EXCEPT !.is_initialized = TRUE]]))

\* ------------------------------------------------------------ enumerate.rs

\* UdevEnumerate::new
UdevEnumerate_new ==
    [sysattr_match_list |-> UdevList_new, sysattr_nomatch_list |-> UdevList_new,
     subsystem_match_list |-> UdevList_new, subsystem_nomatch_list |-> UdevList_new,
     sysname_match_list |-> UdevList_new, properties_match_list |-> UdevList_new,
     tags_match_list |-> UdevList_new, parent |-> None,
     devices |-> <<>>, devices_cur |-> 0, devices_max |-> 0,
     devices_uptodate |-> FALSE, match_is_initialized |-> FALSE]

\* UdevEnumerate::add_match_sysattr
add_match_sysattr(e, sysattr) ==
    IF Len(sysattr) = 0 THEN Err
    ELSE Ok([e EXCEPT !.sysattr_match_list = add_entry(@, sysattr, <<>>)])

\* UdevEnumerate::add_nomatch_sysattr
add_nomatch_sysattr(e, sysattr) ==
    IF Len(sysattr) = 0 THEN Err
    ELSE Ok([e EXCEPT !.sysattr_nomatch_list = add_entry(@, sysattr, <<>>)])

\* UdevEnumerate::add_match_subsystem
add_match_subsystem(e, subsystem) ==
    IF Len(subsystem) = 0 THEN Err
    ELSE Ok([e EXCEPT !.subsystem_match_list = add_entry(@, subsystem, <<>>)])

\* UdevEnumerate::add_nomatch_subsystem
add_nomatch_subsystem(e, subsystem) ==
    IF Len(subsystem) = 0 THEN Err
    ELSE Ok([e EXCEPT !.subsystem_nomatch_list = add_entry(@, subsystem, <<>>)])

\* UdevEnumerate::add_match_sysname
add_match_sysname(e, sysname) ==
    IF Len(sysname) = 0 THEN Err
    ELSE Ok([e EXCEPT !.sysname_match_list = add_entry(@, sysname, <<>>)])

\* UdevEnumerate::add_match_property
add_match_property(e, property, value) ==
    IF Len(property) = 0 THEN Err
    ELSE Ok([e EXCEPT !.properties_match_list = add_entry(@, property, value)])

\* UdevEnumerate::add_match_tag
add_match_tag(e, tag) ==
    IF Len(tag) = 0 THEN Err
    ELSE Ok([e EXCEPT !.tags_match_list = add_entry(@, tag, <<>>)])

\* UdevEnumerate::set_parent
set_parent(e, parent) == [e EXCEPT !.parent = Some(parent)]

\* UdevEnumerate::syspath_add
syspath_add(e, syspath) ==
    [e EXCEPT !.devices_max = IF e.devices_cur >= e.devices_max THEN @ + 1024 ELSE @,
              !.devices = Append(@, syspath),
              !.devices_cur = @ + 1,
              !.devices_uptodate = FALSE]

\* UdevEnumerate::add_syspath
add_syspath(e, sysfs, syspath) ==
    IF Len(syspath) = 0 THEN Err
    ELSE LET dev == new_from_syspath(sysfs, syspath) IN
         IF ~dev.ok THEN Err ELSE Ok(syspath_add(e, dev.val.syspath))

\* UdevEnumerate::match_subsystem
match_subsystem(e, subsystem) ==
    /\ Len(subsystem) # 0
    /\ ~\E k \in 1..Len(e.subsystem_nomatch_list.list) :
            e.subsystem_nomatch_list.list[k].name = subsystem
    /\ \/ Len(e.subsystem_match_list.list) = 0
       \/ \E k \in 1..Len(e.subsystem_match_list.list) :
            e.subsystem_match_list.list[k].name = subsystem

\* UdevEnumerate::match_sysname
match_sysname(e, sysname) ==
    /\ Len(sysname) # 0
    /\ \/ Len(e.sysname_match_list.list) = 0
       \/ \E k \in 1..Len(e.sysname_match_list.list) :
            e.sysname_match_list.list[k].name = sysname

\* UdevEnumerate::match_parent
match_parent(e, dev) ==
    IF e.parent.some THEN starts_with(dev.devpath, e.parent.val.devpath) ELSE TRUE

\* One pair of match_property: does the match entry accept the device's
\* property?
property_pair_matches(match_key, match_value, dev_key, dev_value) ==
    LET key_pattern == Pattern_new(match_key)
        val_pattern == Pattern_new(match_value)
    IN  /\ key_pattern.ok
        /\ Pattern_matches(key_pattern.val, dev_key)
        /\ \/ Len(match_value) = 0 /\ Len(dev_value) = 0
           \/ val_pattern.ok /\ Pattern_matches(val_pattern.val, dev_value)

\* UdevEnumerate::match_property
match_property(e, dev) ==
    \/ Len(e.properties_match_list.list) = 0
    \/ \E m \in 1..Len(e.properties_match_list.list), p \in 1..Len(dev.properties_list.list) :
          property_pair_matches(e.properties_match_list.list[m].name,
                                e.properties_match_list.list[m].value,
                                dev.properties_list.list[p].name,
                                dev.properties_list.list[p].value)

\* UdevDevice::match_sysattr_value: [ret, dev]
match_sysattr_value(sysfs, dev, sysattr, match_val) ==
    Let(get_sysattr_value(sysfs, dev, sysattr), LAMBDA r :
        [ret |-> /\ r.ret.some
                 /\ \/ Len(match_val) = 0
                    \/ Let(Pattern_new(match_val), LAMBDA pattern :
                           pattern.ok /\ Pattern_matches(pattern.val, r.ret.val)),
         dev |-> r.dev])

\* iter().any(|f| dev.match_sysattr_value(f.name(), f.value())) from entry k
\* on: stops at the first entry that matches.  [ret, dev]
RECURSIVE any_sysattr(_, _, _, _)
any_sysattr(sysfs, dev, entries, k) ==
    IF k > Len(entries) THEN [ret |-> FALSE, dev |-> dev]
    ELSE Let(match_sysattr_value(sysfs, dev, entries[k].name, entries[k].value),
             LAMBDA r : IF r.ret THEN r ELSE any_sysattr(sysfs, r.dev, entries, k + 1))

\* iter().filter(|f| !dev.match_sysattr_value(..)).count() from entry k on:
\* every entry is tried.  [count, dev]
RECURSIVE count_sysattr_mismatch(_, _, _, _)
count_sysattr_mismatch(sysfs, dev, entries, k) ==
    IF k > Len(entries) THEN [count |-> 0, dev |-> dev]
    ELSE Let(match_sysattr_value(sysfs, dev, entries[k].name, entries[k].value),
             LAMBDA r :
             Let(count_sysattr_mismatch(sysfs, r.dev, entries, k + 1),
                 LAMBDA rest :
                 [count |-> rest.count + (IF r.ret THEN 0 ELSE 1), dev |-> rest.dev]))

\* UdevEnumerate::match_sysattr: [ret, dev]
match_sysattr(e, sysfs, dev) ==
    Let(any_sysattr(sysfs, dev, e.sysattr_nomatch_list.list, 1), LAMBDA nomatch :
        IF nomatch.ret THEN [ret |-> FALSE, dev |-> nomatch.dev]
        ELSE Let(count_sysattr_mismatch(sysfs, nomatch.dev, e.sysattr_match_list.list, 1),
                 LAMBDA mismatch :
                 IF mismatch.count # 0 THEN [ret |-> FALSE, dev |-> mismatch.dev]
                 ELSE any_sysattr(sysfs, mismatch.dev, e.sysattr_match_list.list, 1)))

\* The prefix of the run-time directory.
UDEV_ROOT_RUN == <<"/", "r", "u", "n">>

\* fs::read_dir(path): the names in the directory, or Err if it cannot be
\* opened.  dirs maps each directory that can be opened to its names.
read_dir(dirs, path) == IF path \in DOMAIN dirs THEN Ok(dirs[path]) ELSE Err

\* The filters of scan_devices_tags on one device, in the order of the code.
tags_filters_accept(e, sysfs, dev) ==
    /\ match_subsystem(e, dev.subsystem)
    /\ match_sysname(e, dev.sysname)
    /\ match_parent(e, dev)
    /\ match_property(e, dev)
    /\ match_sysattr(e, sysfs, dev).ret

\* The entries of one tag directory from entry k on: [ok, add_syspaths,
\* visits].  A visit records the device an entry was lifted to and what
\* match_subsystem said of it.
RECURSIVE scan_tag_dir(_, _, _, _, _, _)
scan_tag_dir(e, sysfs, names, k, add_syspaths, visits) ==
    IF k > Len(names) THEN [ok |-> TRUE, add_syspaths |-> add_syspaths, visits |-> visits]
    ELSE LET d_name == names[k] IN
         IF Len(d_name) = 0 \/ starts_with(d_name, <<".">>)
         THEN scan_tag_dir(e, sysfs, names, k + 1, add_syspaths, visits)
         ELSE Let(new_from_device_id(sysfs, d_name), LAMBDA dev :
              IF ~dev.ok
              THEN [ok |-> FALSE, add_syspaths |-> add_syspaths, visits |-> visits]
              ELSE scan_tag_dir(e, sysfs, names, k + 1,
                       IF tags_filters_accept(e, sysfs, dev.val)
                       THEN Append(add_syspaths, dev.val.syspath) ELSE add_syspaths,
                       Append(visits, [d_name |-> d_name, dev |-> dev.val,
                                       accepted |-> match_subsystem(e, dev.val.subsystem)])))

\* The tags of tags_match_list from entry t on.
RECURSIVE scan_tags_from(_, _, _, _, _, _)
scan_tags_from(e, sysfs, dirs, t, add_syspaths, visits) ==
    IF t > Len(e.tags_match_list.list)
    THEN [ok |-> TRUE, add_syspaths |-> add_syspaths, visits |-> visits]
    ELSE LET path == UDEV_ROOT_RUN \o <<"/", "u", "d", "e", "v", "/", "t", "a", "g", "s", "/">> \o e.tags_match_list.list[t].name
             dir == read_dir(dirs, path)
         IN  IF ~dir.ok
             THEN [ok |-> FALSE, add_syspaths |-> add_syspaths, visits |-> visits]
             ELSE Let(scan_tag_dir(e, sysfs, dir.val, 1, add_syspaths, visits), LAMBDA r :
                      IF ~r.ok THEN r
                      ELSE scan_tags_from(e, sysfs, dirs, t + 1, r.add_syspaths, r.visits))

\* syspath_add of each path, in order.
RECURSIVE syspath_add_all(_, _, _)
syspath_add_all(e, paths, k) ==
    IF k > Len(paths) THEN e ELSE syspath_add_all(syspath_add(e, paths[k]), paths, k + 1)

\* UdevEnumerate::scan_devices_tags: [ok, e, visits]
scan_devices_tags(e, sysfs, dirs) ==
    Let(scan_tags_from(e, sysfs, dirs, 1, <<>>, <<>>), LAMBDA r :
        [ok |-> r.ok,
         e |-> IF r.ok THEN syspath_add_all(e, r.add_syspaths, 1) ELSE e,
         visits |-> r.visits])

\* UdevEnumerate::scan_devices_children
scan_devices_children(e) == [ok |-> FALSE, e |-> e, visits |-> <<>>]

\* UdevEnumerate::scan_devices_all
scan_devices_all(e) == [ok |-> FALSE, e |-> e, visits |-> <<>>]

\* UdevEnumerate::scan_devices: [ok, e, visits]
scan_devices(e, sysfs, dirs) ==
    IF UdevList_entry(e.tags_match_list).ok THEN scan_devices_tags(e, sysfs, dirs)
    ELSE IF e.parent.some THEN scan_devices_children(e)
    ELSE scan_devices_all(e)

\* ------------------------------------------------------------ socket.rs
AF_NETLINK == 16

\* UdevSocket::new_nl: a netlink address
new_nl(family, pid, groups) ==
    [nl_family |-> family, nl_pid |-> pid, nl_groups |-> groups]

\* ------------------------------------------------------------ the netlink socket, kernel side
\* The pid the kernel assigns to a socket bound with nl_pid = 0.
OwnPid == 500

\* socket(PF_NETLINK, ..., NETLINK_KOBJECT_UEVENT): a fresh, unbound socket
kernel_socket ==
    [bound |-> FALSE, nl_pid |-> 0, nl_groups |-> 0, passcred |-> FALSE,
     filter |-> FALSE]

\* bind(sock, addr): the socket joins the multicast groups of addr.nl_groups
kernel_bind(sk, addr) ==
    [sk EXCEPT !.bound = TRUE,
               !.nl_pid = IF addr.nl_pid = 0 THEN OwnPid ELSE addr.nl_pid,
               !.nl_groups = addr.nl_groups]

\* getsockname(sock): the address the kernel holds for the socket
kernel_getsockname(sk) == new_nl(AF_NETLINK, sk.nl_pid, sk.nl_groups)

\* Sizes in 32-bit words: ucred is three ints; cmsghdr is size_t + two ints.
UCRED_WORDS == 3
SOL_SOCKET == 1
SCM_CREDENTIALS == 2
cmsghdr_words(width) == IF width = 64 THEN 4 ELSE 3

\* put_cmsg: the kernel writes one control message into a control buffer of
\* `control` words.  A buffer shorter than a cmsghdr is left untouched; a
\* buffer shorter than header + data gets the header (cmsg_len clipped to the
\* buffer) and as much data as fits.
kernel_put_cmsg(control, width, level, type, data) ==
    LET hdr == cmsghdr_words(width)
        cmlen == 4 * (IF Len(control) < hdr + Len(data) THEN Len(control)
                      ELSE hdr + Len(data))
        header == IF width = 64 THEN <<cmlen, 0, level, type>>
                  ELSE <<cmlen, level, type>>
        full == header \o data
    IN  IF Len(control) < hdr THEN control
        ELSE SubSeq(full, 1, min_of(Len(full), Len(control)))
             \o SubSeq(control, min_of(Len(full), Len(control)) + 1, Len(control))

\* recvmsg into cred_msg = [0u8; size_of::<ucred>()]: the control bytes the
\* call leaves behind for a frame sent with credentials (pid, uid, gid).
recvmsg_control(sk, frame, width) ==
    IF sk.passcred
    THEN kernel_put_cmsg(<<0, 0, 0>>, width, SOL_SOCKET, SCM_CREDENTIALS,
                         <<frame.pid, frame.uid, frame.gid>>)
    ELSE <<0, 0, 0>>

\* A classic BPF instruction (struct sock_filter).
sock_filter(code, k, jt, jf) == [code |-> code, k |-> k, jt |-> jt, jf |-> jf]

\* The words of a frame the filter program looks at, each as BPF_LD|BPF_W|BPF_ABS
\* loads it: the four bytes at the offset, most significant first.
Packet(magic, subsystem_hash, devtype_hash, tag_bloom_hi, tag_bloom_lo) ==
    [magic |-> magic, subsystem_hash |-> subsystem_hash,
     devtype_hash |-> devtype_hash, tag_bloom_hi |-> tag_bloom_hi,
     tag_bloom_lo |-> tag_bloom_lo]

packet_word(pkt, off) ==
    CASE off = 8 -> pkt.magic
      [] off = 24 -> pkt.subsystem_hash
      [] off = 28 -> pkt.devtype_hash
      [] off = 32 -> pkt.tag_bloom_hi
      [] off = 36 -> pkt.tag_bloom_lo
      [] OTHER -> u32_of(0)

\* The kernel runs a socket filter on a frame from instruction pc with the
\* accumulator A: the value of the RET it reaches (0 drops the frame).
RECURSIVE bpf_run(_, _, _, _)
bpf_run(ins, pkt, pc, A) ==
    IF pc > Len(ins) THEN u32_of(0)
    ELSE Let(ins[pc], LAMBDA f :
        CASE f.code = "BPF_LD|BPF_W|BPF_ABS" ->
                bpf_run(ins, pkt, pc + 1, packet_word(pkt, lo16(f.k)))
          [] f.code = "BPF_ALU|BPF_AND|BPF_K" ->
                bpf_run(ins, pkt, pc + 1, and32(A, f.k))
          [] f.code = "BPF_JMP|BPF_JEQ|BPF_K" ->
                bpf_run(ins, pkt, pc + 1 + (IF A = f.k THEN f.jt ELSE f.jf), A)
          [] OTHER -> f.k)

\* What the socket does with the frame.
sk_filter(ins, pkt) ==
    IF bpf_run(ins, pkt, 1, u32_of(0)) = u32_of(0) THEN "DROP" ELSE "ACCEPT"

\* ------------------------------------------------------------ monitor.rs
UDEV_MONITOR_MAGIC == <<"xfe", "xed", "xca", "xfe">>
RECV_RETRIES == 1024
RECV_BUF_LEN == 8192
MIN_FRAME_LEN == 32
HEADER_LEN == 40
KERNEL_HEADER_MIN == 4

LowerCase ==
    ("K" :> "k") @@ ("E" :> "e") @@ ("R" :> "r") @@ ("N" :> "n") @@ ("L" :> "l")
    @@ ("U" :> "u") @@ ("D" :> "d") @@ ("V" :> "v")
to_lowercase(s) ==
    [i \in 1..Len(s) |-> IF s[i] \in DOMAIN LowerCase THEN LowerCase[s[i]] ELSE s[i]]

\* impl From<&str> for UdevMonitorNetlinkGroup
group_from_str(val) ==
    Let(to_lowercase(val), LAMBDA v :
        IF v = <<"k", "e", "r", "n", "e", "l">> THEN "Kernel"
        ELSE IF v = <<"u", "d", "e", "v">> THEN "Udev"
        ELSE "None")

\* UdevMonitorNetlinkGroup as u32
group_as_u32(g) == IF g = "Kernel" THEN 1 ELSE IF g = "Udev" THEN 2 ELSE 0

UdevMonitor_new ==
    [sock |-> 0,
     snl |-> new_nl(AF_NETLINK, 0, 2),
     snl_group |-> "None",
     snl_trusted_sender |-> new_nl(AF_NETLINK, 0, 0),
     snl_destination |-> new_nl(AF_NETLINK, 0, 0),
     snl_destination_group |-> "None",
     filter_subsystem_list |-> UdevList_new,
     filter_tag_list |-> UdevList_new,
     bound |-> FALSE]

set_nl_address(m, sk) == [m EXCEPT !.snl = kernel_getsockname(sk)]

\* new_from_netlink_fd(udev, name, fd): control_file tells whether
\* /run/udev/control can be opened; sk is the socket behind fd when fd >= 0.
new_from_netlink_fd(name, fd, control_file, sk) ==
    LET requested == group_from_str(name)
        group == IF requested = "Udev"
                 THEN IF control_file THEN "None" ELSE "Udev"
                 ELSE requested
        m0 == [UdevMonitor_new EXCEPT !.snl_group = group,
                                      !.snl_destination_group = "Udev"]
    IN  IF requested = "None" THEN [ok |-> FALSE, m |-> UdevMonitor_new, sk |-> sk]
        ELSE IF fd < 0
        THEN [ok |-> TRUE, m |-> [m0 EXCEPT !.sock = 3], sk |-> kernel_socket]
        ELSE [ok |-> TRUE,
              m |-> [set_nl_address([m0 EXCEPT !.sock = fd], sk) EXCEPT !.bound = TRUE],
              sk |-> sk]

new_from_netlink(name, control_file) ==
    new_from_netlink_fd(name, -1, control_file, kernel_socket)

set_snl_trusted_sender(m, val) == [m EXCEPT !.snl = val]

filter_add_match_subsystem_devtype(m, subsystem, devtype) ==
    IF Len(subsystem) = 0 THEN [ok |-> FALSE, m |-> m]
    ELSE [ok |-> TRUE,
          m |-> [m EXCEPT !.filter_subsystem_list = add_entry(@, subsystem, devtype)]]

filter_add_match_tag(m, tag) ==
    IF Len(tag) = 0 THEN [ok |-> FALSE, m |-> m]
    ELSE [ok |-> TRUE,
          m |-> [m EXCEPT !.filter_tag_list = add_entry(@, tag, <<>>)]]

\* filter_update: nothing to attach when both lists are empty, otherwise the
\* compiled program is attached to the socket.
filter_update(m, sk) ==
    IF ~UdevList_entry(m.filter_subsystem_list).ok /\ ~UdevList_entry(m.filter_tag_list).ok
    THEN [ok |-> TRUE, sk |-> sk]
    ELSE [ok |-> TRUE, sk |-> [sk EXCEPT !.filter = TRUE]]

\* enable_receiving: bind_addr is the address handed to bind, if bind is called
enable_receiving(m, sk) ==
    LET sk1 == filter_update(m, sk).sk
        sk2 == IF ~m.bound THEN kernel_bind(sk1, m.snl) ELSE sk1
        m1 == set_nl_address([m EXCEPT !.bound = TRUE], sk2)
    IN  [ok |-> TRUE,
         m |-> m1,
         sk |-> [sk2 EXCEPT !.passcred = TRUE],
         bind_addr |-> IF ~m.bound THEN Some(m.snl) ELSE None]

\* parse_cmsg over the control buffer, counted in 32-bit words.  Reading a
\* word past the end of the buffer is a slice panic.
Panic == [ok |-> FALSE, val |-> <<"panic">>]
ucred(pid, uid, gid) == [pid |-> pid, uid |-> uid, gid |-> gid]
parse_cmsg(msg_control, width) ==
    LET controllen == Len(msg_control)
        header_len == cmsghdr_words(width)
        msg_control_len == header_len + UCRED_WORDS
    IN  IF controllen >= msg_control_len
        THEN IF controllen < 7 THEN Panic
             ELSE IF msg_control[4] # SCM_CREDENTIALS THEN Err
             ELSE Ok(ucred(msg_control[5], msg_control[6], msg_control[7]))
        ELSE IF controllen >= UCRED_WORDS
        THEN Ok(ucred(msg_control[1], msg_control[2], msg_control[3]))
        ELSE Err

\* The first n bytes of the zeroed receive buffer after a frame was copied in.
recv_buf(bytes, n) ==
    [i \in 1..n |-> IF i <= Len(bytes) THEN bytes[i] ELSE "NUL"]

le32(b) == CharCode(b[1]) + 256 * CharCode(b[2]) + 65536 * CharCode(b[3])
           + 16777216 * (CharCode(b[4]) % 128)

\* impl TryFrom<&[u8]> for UdevMonitorNetlinkHeader, applied to the receive
\* buffer (always RECV_BUF_LEN >= HEADER_LEN bytes long).
NetlinkHeader_try_from(bytes) ==
    Let(recv_buf(bytes, HEADER_LEN), LAMBDA val :
        IF RECV_BUF_LEN < HEADER_LEN THEN Err
        ELSE IF SubSeq(val, 1, 8) # <<"l", "i", "b", "u", "d", "e", "v", "NUL">> THEN Err
        ELSE IF SubSeq(val, 9, 12) # UDEV_MONITOR_MAGIC THEN Err
        ELSE Ok([prefix |-> SubSeq(val, 1, 8),
                 magic |-> SubSeq(val, 9, 12),
                 header_size |-> le32(SubSeq(val, 13, 16)),
                 properties_off |-> le32(SubSeq(val, 17, 20)),
                 properties_len |-> le32(SubSeq(val, 21, 24)),
                 filter_subsystem_hash |-> le32(SubSeq(val, 25, 28)),
                 filter_devtype_hash |-> le32(SubSeq(val, 29, 32)),
                 filter_tag_bloom_hi |-> le32(SubSeq(val, 33, 36)),
                 filter_tag_bloom_lo |-> le32(SubSeq(val, 37, 40))]))

\* A u32 is held as its four bytes, least significant first (as
\* UDEV_MONITOR_MAGIC above); small numbers are held as integers.
ByteTokens == {"NUL", "(", "xca", "xed", "xfe"}
byte_of(n) == CHOOSE c \in ByteTokens : CharCode(c) = n
u32_le(n) ==
    <<byte_of(n % 256), byte_of((n \div 256) % 256),
      byte_of((n \div 65536) % 256), byte_of(n \div 16777216)>>
swap_bytes(b) == <<b[4], b[3], b[2], b[1]>>
\* u32::to_be on a little-endian or big-endian target
to_be(b, endian) == IF endian = "little" THEN swap_bytes(b) ELSE b
\* the bytes a u32 occupies in memory on that target
ne_bytes(b, endian) == IF endian = "little" THEN b ELSE swap_bytes(b)

\* UdevMonitorNetlinkHeader::new
NetlinkHeader_new(endian) ==
    [prefix |-> <<"l", "i", "b", "u", "d", "e", "v", "NUL">>,
     magic |-> to_be(UDEV_MONITOR_MAGIC, endian),
     header_size |-> HEADER_LEN,
     properties_off |-> 0,
     properties_len |-> 0,
     filter_subsystem_hash |-> 0,
     filter_devtype_hash |-> 0,
     filter_tag_bloom_hi |-> 0,
     filter_tag_bloom_lo |-> 0]

\* send_device hands the header struct itself to sendmsg as iov[0]: the
\* bytes on the wire are the #[repr(C)] struct as it lies in memory.
header_wire(h, endian) ==
    h.prefix
    \o ne_bytes(h.magic, endian)
    \o ne_bytes(u32_le(h.header_size), endian)
    \o ne_bytes(u32_le(h.properties_off), endian)
    \o ne_bytes(u32_le(h.properties_len), endian)
    \o ne_bytes(u32_le(h.filter_subsystem_hash), endian)
    \o ne_bytes(u32_le(h.filter_devtype_hash), endian)
    \o ne_bytes(u32_le(h.filter_tag_bloom_hi), endian)
    \o ne_bytes(u32_le(h.filter_tag_bloom_lo), endian)

\* The keys new_from_nulstr walks: NUL-separated, up to the first empty one.
\* The receive buffer is zero-filled behind the frame, so the last key of a
\* frame is always followed by an empty one.
RECURSIVE nulstr_keys(_)
nulstr_keys(s) ==
    Let(PositionOf(s, "NUL", 0), LAMBDA k :
        IF k = 0 \/ Len(s) = 0 THEN <<>>
        ELSE IF k < 0 THEN <<s>>
        ELSE <<SubSeq(s, 1, k)>> \o nulstr_keys(SliceFrom(s, k + 1)))

RECURSIVE add_properties(_, _)
add_properties(dev, keys) ==
    IF Len(keys) = 0 THEN dev
    ELSE add_properties(add_property_from_string(dev, Head(keys)), Tail(keys))

\* UdevDevice::new_from_nulstr
new_from_nulstr(buf) ==
    add_properties([UdevDevice_new EXCEPT !.info_loaded = TRUE], nulstr_keys(buf))

\* UdevList::has_tag
has_tag(l, device) ==
    IF Len(l.list) = 0 THEN TRUE
    ELSE \E i \in 1..Len(l.list) :
            entry_by_name_idx(device.tags_list, l.list[i].name) # 0

\* UdevMonitor::passes_filter; get_subsystem may fill the device's subsystem.
passes_filter(m, sysfs, device) ==
    IF Len(m.filter_subsystem_list.list) = 0
    THEN [pass |-> has_tag(m.filter_tag_list, device), dev |-> device]
    ELSE Let(get_subsystem(sysfs, device), LAMBDA g :
            [pass |-> (\E i \in 1..Len(m.filter_subsystem_list.list) :
                          /\ m.filter_subsystem_list.list[i].name = g.ret
                          /\ Len(g.dev.devtype) # 0
                          /\ \/ Len(m.filter_subsystem_list.list[i].value) = 0
                             \/ m.filter_subsystem_list.list[i].value = g.dev.devtype)
                       /\ has_tag(m.filter_tag_list, g.dev),
             dev |-> g.dev])

\* The header checks of receive_device: where the properties start.
frame_bufpos(bytes) ==
    Let(NetlinkHeader_try_from(bytes), LAMBDA nlh :
        IF nlh.ok
        THEN Ok([bufpos |-> min_of(RECV_BUF_LEN, nlh.val.properties_off),
                 is_initialized |-> TRUE])
        ELSE Let(PositionOf(bytes \o <<"NUL">>, "NUL", 0) + 1, LAMBDA bufpos :
                IF bufpos < KERNEL_HEADER_MIN \/ bufpos >= Len(bytes) THEN Err
                ELSE IF SubSeq(recv_buf(bytes, 2), 1, 2) # <<"@", "/">> THEN Err
                ELSE Ok([bufpos |-> bufpos, is_initialized |-> FALSE])))

\* One pass of the loop body of receive_device over a frame taken from the
\* socket: the checks in the order of the code, then the device.
receive_frame(m, sk, frame, width) ==
    LET buflen == Len(frame.buf)
        trusted_pid == m.snl_trusted_sender.nl_pid
        control == recvmsg_control(sk, frame, width)
        fail(e) == [ok |-> FALSE, err |-> e, device |-> UdevDevice_new]
    IN  IF buflen < MIN_FRAME_LEN \/ buflen > RECV_BUF_LEN THEN fail("length")
        ELSE IF frame.nl_groups = 0 /\ (trusted_pid = 0 \/ frame.nl_pid # trusted_pid)
        THEN fail("unicast")
        ELSE IF frame.nl_groups = group_as_u32("Kernel") /\ frame.nl_pid > 0
        THEN fail("kernel pid")
        ELSE Let(parse_cmsg(control, width), LAMBDA cred :
             IF ~cred.ok THEN fail("credentials")
             ELSE IF cred.val.uid # 0 THEN fail("uid")
             ELSE Let(frame_bufpos(frame.buf), LAMBDA pos :
                  IF ~pos.ok THEN fail("header")
                  ELSE [ok |-> TRUE, err |-> "",
                        device |-> [new_from_nulstr(SliceFrom(frame.buf, pos.val.bufpos))
                                    EXCEPT !.is_initialized = pos.val.is_initialized]]))

NoFrame == [nl_pid |-> 0, nl_groups |-> 0, pid |-> 0, uid |-> 0, gid |-> 0, buf |-> <<>>]

\* One pass of the loop of receive_device, filter included: ok tells that
\* the frame is valid, pass that its device passes the filter.
frame_outcome(m, sk, frame, width, sysfs) ==
    Let(receive_frame(m, sk, frame, width), LAMBDA r :
        IF r.ok
        THEN Let(passes_filter(m, sysfs, r.device), LAMBDA p :
                 [ok |-> TRUE, err |-> IF p.pass THEN "" ELSE "filtered",
                  pass |-> p.pass, dev |-> p.dev])
        ELSE [ok |-> FALSE, err |-> r.err, pass |-> FALSE, dev |-> r.device])

\* The loop of receive_device over the queued frames, of which it may take
\* `limit`.  A pass goes on to the next frame only if the frame is valid, its
\* device is filtered out and poll reports another frame queued; the loop
\* therefore stops at the first frame that is invalid, passes, or is the last
\* one queued.  The monitor and the socket do not change during the call, so
\* whether a frame is skipped depends on the frame alone.
receive_loop(m, sk, queue, width, sysfs, tries, limit) ==
    Let({f \in {queue[i] : i \in 1..Len(queue)} :
            Let(frame_outcome(m, sk, f, width, sysfs), LAMBDA o : o.ok /\ ~o.pass)},
        LAMBDA skipped :
        Let({i \in 1..limit : i = Len(queue) \/ queue[i] \notin skipped},
            LAMBDA stops :
            IF tries = 0 \/ (Len(queue) > 0 /\ stops = {})
            THEN [ok |-> FALSE, err |-> "retries", device |-> UdevDevice_new,
                  queue |-> SubSeq(queue, limit + 1, Len(queue)), frame |-> NoFrame,
                  passcred |-> sk.passcred, tries_left |-> 0]
            ELSE IF Len(queue) = 0
            THEN [ok |-> FALSE, err |-> "recvmsg", device |-> UdevDevice_new,
                  queue |-> queue, frame |-> NoFrame,
                  passcred |-> sk.passcred, tries_left |-> tries - 1]
            ELSE Let(CHOOSE k \in 1..limit :
                        k \in stops /\ \A j \in 1..(k - 1) : j \notin stops,
                     LAMBDA k :
                     Let(frame_outcome(m, sk, queue[k], width, sysfs), LAMBDA o :
                         [ok |-> o.ok /\ o.pass,
                          err |-> o.err,
                          device |-> o.dev,
                          queue |-> SubSeq(queue, k + 1, Len(queue)),
                          frame |-> queue[k],
                          passcred |-> sk.passcred,
                          tries_left |-> tries - k]))))

\* A plausible slip (the loop of the reference implementation): frames are
\* read for as long as they are filtered out and more are queued.
receive_device_unbounded(m, sk, queue, width, sysfs, tries) ==
    receive_loop(m, sk, queue, width, sysfs, tries, Len(queue))

\* UdevMonitor::receive_device: at most `tries` frames are taken from the
\* queue; an empty queue makes recvmsg fail on the non-blocking socket.
\* tries_left tells how many of the tries were not used.
receive_device(m, sk, queue, width, sysfs, tries) ==
    receive_loop(m, sk, queue, width, sysfs, tries, min_of(Len(queue), tries))

\* The kernel side of the attached filter: a frame whose word at the magic
\* offset (loaded big-endian) differs from UDEV_MONITOR_MAGIC is passed.
filter_passes_magic(bytes) ==
    SubSeq(recv_buf(bytes, 12), 9, 12)
        # <<UDEV_MONITOR_MAGIC[4], UDEV_MONITOR_MAGIC[3], UDEV_MONITOR_MAGIC[2], UDEV_MONITOR_MAGIC[1]>>

\* const BPF_FILTER_LEN
BPF_FILTER_LEN == 512

\* UDEV_MONITOR_MAGIC as the u32 it is.
magic_u32 == as_bytes(UDEV_MONITOR_MAGIC)

\* BpfFilters::bpf_stmt and BpfFilters::bpf_jmp: the instruction stored at i.
bpf_stmt(code, data) == sock_filter(code, data, 0, 0)
bpf_jmp(code, data, jt, jf) == sock_filter(code, data, jt, jf)

\* (tag_bloom_bits >> 32) as u32 and tag_bloom_bits as u32
tag_bloom_hi(bits) == bits_u32({b - 32 : b \in {x \in bits : x >= 32}})
tag_bloom_lo(bits) == bits_u32({b \in bits : b < 32})

\* filter_update, the loop over filter_tag_list from its k-th entry: six
\* instructions a tag.  tag_matches is the number of tags still to come.
RECURSIVE filter_tag_ins(_, _, _)
filter_tag_ins(list, k, endian) ==
    IF k > Len(list) THEN <<>>
    ELSE Let(string_bloom64(list[k].name, endian), LAMBDA tag_bloom_bits :
         Let(Len(list) - k, LAMBDA tag_matches :
            <<bpf_stmt("BPF_LD|BPF_W|BPF_ABS", u32_of(32)),
              bpf_stmt("BPF_ALU|BPF_AND|BPF_K", u32_of(32)),
              bpf_jmp("BPF_JMP|BPF_JEQ|BPF_K", tag_bloom_hi(tag_bloom_bits), 0, 3),
              bpf_stmt("BPF_LD|BPF_W|BPF_ABS", u32_of(36)),
              bpf_stmt("BPF_ALU|BPF_AND|BPF_K", tag_bloom_lo(tag_bloom_bits)),
              bpf_jmp("BPF_JMP|BPF_JEQ|BPF_K", tag_bloom_lo(tag_bloom_bits),
                      (1 + tag_matches * 6) % 256, 0)>>))
         \o filter_tag_ins(list, k + 1, endian)

\* filter_update, the loop over filter_subsystem_list from its k-th entry.
RECURSIVE filter_subsystem_ins(_, _, _)
filter_subsystem_ins(list, k, endian) ==
    IF k > Len(list) THEN <<>>
    ELSE <<bpf_stmt("BPF_LD|BPF_W|BPF_ABS", u32_of(24))>>
         \o (IF Len(list[k].value) = 0
             THEN <<bpf_jmp("BPF_JMP|BPF_JEQ|BPF_K",
                            string_hash32(list[k].name, endian), 0, 1)>>
             ELSE <<bpf_jmp("BPF_JMP|BPF_JEQ|BPF_K",
                            string_hash32(list[k].name, endian), 0, 3),
                    bpf_stmt("BPF_LD|BPF_W|BPF_ABS", u32_of(28)),
                    bpf_jmp("BPF_JMP|BPF_JEQ|BPF_K",
                            string_hash32(list[k].value, endian), 0, 1)>>)
         \o <<bpf_stmt("BPF_RET|BPF_K", u32_halves(65535, 65535))>>
         \o filter_subsystem_ins(list, k + 1, endian)

\* filter_update, the program it writes into ins when a list has an entry.
filter_ins(m, endian) ==
    <<bpf_stmt("BPF_LD|BPF_W|BPF_ABS", u32_of(8)),
      bpf_jmp("BPF_JMP|BPF_JEQ|BPF_K", magic_u32, 1, 0),
      bpf_stmt("BPF_RET|BPF_K", u32_halves(65535, 65535))>>
    \o (IF UdevList_entry(m.filter_tag_list).ok
        THEN filter_tag_ins(m.filter_tag_list.list, 1, endian)
             \o <<bpf_stmt("BPF_RET|BPF_K", u32_of(0))>>
        ELSE <<>>)
    \o (IF UdevList_entry(m.filter_subsystem_list).ok
        THEN filter_subsystem_ins(m.filter_subsystem_list.list, 1, endian)
             \o <<bpf_stmt("BPF_RET|BPF_K", u32_of(0))>>
        ELSE <<>>)
    \o <<bpf_stmt("BPF_RET|BPF_K", u32_halves(65535, 65535))>>

\* filter_update and setsockopt(SO_ATTACH_FILTER): the program on the socket
\* afterwards (prog is the one attached before; none is the empty program).
filter_update_attach(m, prog, endian) ==
    IF ~UdevList_entry(m.filter_subsystem_list).ok /\ ~UdevList_entry(m.filter_tag_list).ok
    THEN [ok |-> TRUE, prog |-> prog]
    ELSE IF Len(filter_ins(m, endian)) > BPF_FILTER_LEN
         THEN [ok |-> FALSE, prog |-> prog]
         ELSE [ok |-> TRUE, prog |-> filter_ins(m, endian)]

\* ------------------------------------------------------------ idle values

\* No add_entry call has been made: no name has a most recent value.
NoAdds == [latest |-> [n \in {} |-> <<>>], count |-> 0]

\* No query has been made on a freshly opened database.
HwdbOpened(db) ==
    [head |-> db.head, hwdb_buf |-> db.hwdb_buf, properties_list |-> UdevList_new,
     queried |-> FALSE, modalias |-> <<>>, ret |-> "None", status |-> "ok",
     decoded |-> {}, refused |-> {}]

\* The sysfs entries of one device: its directory under the bus (or class) of
\* its subsystem, its subsystem link and, for a network interface, its name.
SysfsOf(dev, bus) ==
    [exists |-> {(IF bus THEN <<"/", "s", "y", "s", "/", "b", "u", "s", "/">> \o dev.subsystem \o <<"/", "d", "e", "v", "i", "c", "e", "s", "/">>
                  ELSE <<"/", "s", "y", "s", "/", "c", "l", "a", "s", "s", "/">> \o dev.subsystem \o <<"/">>) \o dev.sysname},
     attrs |-> (dev.syspath \o <<"/", "s", "u", "b", "s", "y", "s", "t", "e", "m">> :>
                    SysLink(<<".", ".", "/", ".", ".", "/", "b", "u", "s", "/">> \o dev.subsystem, TRUE)),
     ifname |-> IF dev.ifindex > 0 THEN (dev.ifindex :> dev.sysname)
                ELSE [i \in {} |-> <<>>],
     uevent |-> [p \in {} |-> <<>>]]

\* A device whose information is loaded, as one received from a monitor.
LoadedDevice(subsystem, maj, min, ifindex, basename) ==
    [UdevDevice_new EXCEPT !.info_loaded = TRUE,
                           !.subsystem = subsystem,
                           !.devnum = makedev(maj, min),
                           !.ifindex = ifindex,
                           !.syspath = <<"/", "s", "y", "s", "/", "d", "e", "v", "i", "c", "e", "s", "/">> \o basename,
                           !.devpath = <<"/", "d", "e", "v", "i", "c", "e", "s", "/">> \o basename,
                           !.sysname = basename]

DeviceIdState(dev, bus) ==
    [dev |-> dev, sysfs |-> SysfsOf(dev, bus), id |-> <<>>, id_built |-> FALSE,
     looked_up |-> FALSE, res |-> Err, again |-> FALSE, id_again |-> <<>>]

\* The attributes of the device /sys/devices/d0:
\*   vendor   a readable file             empty    a file of size 0
\*   secret   a file without S_IRUSR      ioerr    a file whose read fails
\*   power    a directory                 driver   a link to a directory
\*   broken   a link to nothing           (anything else is absent)
SysattrDevice == [UdevDevice_new EXCEPT !.syspath = <<"/", "s", "y", "s", "/", "d", "e", "v", "i", "c", "e", "s", "/", "d", "0">>]
SysattrSysfs ==
    [exists |-> {<<"/", "s", "y", "s", "/", "d", "e", "v", "i", "c", "e", "s", "/", "d", "0">>},
     attrs |-> (<<"/", "s", "y", "s", "/", "d", "e", "v", "i", "c", "e", "s", "/", "d", "0", "/", "v", "e", "n", "d", "o", "r">> :> SysFile(4096, TRUE, <<"0", "x", "8", "0", "8", "6", "LF">>, TRUE))
            @@ (<<"/", "s", "y", "s", "/", "d", "e", "v", "i", "c", "e", "s", "/", "d", "0", "/", "e", "m", "p", "t", "y">> :> SysFile(0, TRUE, <<>>, TRUE))
            @@ (<<"/", "s", "y", "s", "/", "d", "e", "v", "i", "c", "e", "s", "/", "d", "0", "/", "s", "e", "c", "r", "e", "t">> :> SysFile(4096, FALSE, <<"1", "LF">>, FALSE))
            @@ (<<"/", "s", "y", "s", "/", "d", "e", "v", "i", "c", "e", "s", "/", "d", "0", "/", "i", "o", "e", "r", "r">> :> SysFile(4096, TRUE, <<>>, FALSE))
            @@ (<<"/", "s", "y", "s", "/", "d", "e", "v", "i", "c", "e", "s", "/", "d", "0", "/", "p", "o", "w", "e", "r">> :> SysDir)
            @@ (<<"/", "s", "y", "s", "/", "d", "e", "v", "i", "c", "e", "s", "/", "d", "0", "/", "d", "r", "i", "v", "e", "r">> :> SysLink(<<".", ".", "/", ".", ".", "/", "b", "u", "s", "/", "p", "c", "i", "/", "d", "r", "i", "v", "e", "r", "s", "/", "a", "h", "c", "i">>, TRUE))
            @@ (<<"/", "s", "y", "s", "/", "d", "e", "v", "i", "c", "e", "s", "/", "d", "0", "/", "b", "r", "o", "k", "e", "n">> :> SysLink(<<".", ".", "/", "g", "o", "n", "e">>, FALSE)),
     ifname |-> [i \in {} |-> <<>>],
     uevent |-> [p \in {} |-> <<>>]]

\* No call of get_sysattr_value has been made on the device.
SysattrState(dev, sysfs) ==
    [dev |-> dev, sysfs |-> sysfs, first |-> [n \in {} |-> None],
     called |-> FALSE, name |-> <<>>, ret |-> None, looked |-> FALSE, repeated |-> FALSE]

\* The file system an enumerator scans: a PCI device d0 and a USB device u1,
\* the block device 8:1, and the tag directories seat and uaccess (no
\* directory for the tag power).  The entry +usb:u9 of uaccess is stale: the
\* device u9 is gone.
EnumSysfs ==
    [exists |-> {<<"/", "s", "y", "s", "/", "b", "u", "s", "/", "p", "c", "i", "/", "d", "e", "v", "i", "c", "e", "s", "/", "d", "0">>, <<"/", "s", "y", "s", "/", "b", "u", "s", "/", "u", "s", "b", "/", "d", "e", "v", "i", "c", "e", "s", "/", "u", "1">>},
     attrs |-> (<<"/", "s", "y", "s", "/", "b", "u", "s", "/", "p", "c", "i", "/", "d", "e", "v", "i", "c", "e", "s", "/", "d", "0", "/", "s", "u", "b", "s", "y", "s", "t", "e", "m">> :> SysLink(<<".", ".", "/", ".", ".", "/", ".", ".", "/", "b", "u", "s", "/", "p", "c", "i">>, TRUE))
            @@ (<<"/", "s", "y", "s", "/", "b", "u", "s", "/", "u", "s", "b", "/", "d", "e", "v", "i", "c", "e", "s", "/", "u", "1", "/", "s", "u", "b", "s", "y", "s", "t", "e", "m">> :> SysLink(<<".", ".", "/", ".", ".", "/", ".", ".", "/", "b", "u", "s", "/", "u", "s", "b">>, TRUE))
            @@ (<<"/", "s", "y", "s", "/", "d", "e", "v", "/", "b", "l", "o", "c", "k", "/", "8", ":", "1", "/", "s", "u", "b", "s", "y", "s", "t", "e", "m">> :> SysLink(<<".", ".", "/", ".", ".", "/", "c", "l", "a", "s", "s", "/", "b", "l", "o", "c", "k">>, TRUE))
            @@ (<<"/", "s", "y", "s", "/", "b", "u", "s", "/", "p", "c", "i", "/", "d", "e", "v", "i", "c", "e", "s", "/", "d", "0", "/", "v", "e", "n", "d", "o", "r">> :> SysFile(4096, TRUE, <<"0", "x", "8", "0", "8", "6", "LF">>, TRUE)),
     ifname |-> [i \in {} |-> <<>>],
     uevent |-> [p \in {} |-> <<>>]]
EnumDirs ==
    (<<"/", "r", "u", "n", "/", "u", "d", "e", "v", "/", "t", "a", "g", "s", "/", "s", "e", "a", "t">> :> << <<"+", "p", "c", "i", ":", "d", "0">>, <<".", "x">>, <<"b", "8", ":", "1">> >>)
    @@ (<<"/", "r", "u", "n", "/", "u", "d", "e", "v", "/", "t", "a", "g", "s", "/", "u", "a", "c", "c", "e", "s", "s">> :> << <<"+", "u", "s", "b", ":", "u", "9">>, <<"+", "u", "s", "b", ":", "u", "1">> >>)

\* No scan has been made by the enumerator.
EnumState(e, sysfs, dirs) ==
    [e |-> e, sysfs |-> sysfs, dirs |-> dirs, scanned |-> FALSE, ok |-> FALSE,
     visits |-> <<>>]

ListIdle == ulist = UdevList_new /\ last_add = NoAdds
HwdbIdle == hw = HwdbOpened(DbPrefix)
DeviceIdIdle == did = DeviceIdState(UdevDevice_new, TRUE)
SysattrIdle == sa = SysattrState(UdevDevice_new, SysfsOf(UdevDevice_new, TRUE))
EnumIdle == en = EnumState(UdevEnumerate_new, SysfsOf(UdevDevice_new, TRUE), [p \in {} |-> <<>>])

\* A monitor before construction, on a machine where /run/udev/control can
\* (or cannot) be opened and a cmsghdr takes four (or three) 32-bit words.
NoReceive ==
    [called |-> FALSE, ok |-> FALSE, err |-> "", device |-> UdevDevice_new,
     frame |-> NoFrame, passcred |-> FALSE, attempts |-> 0]
MonitorState(control_file, width) ==
    [created |-> FALSE, name |-> <<>>, from_fd |-> FALSE,
     control_file |-> control_file, width |-> width,
     m |-> UdevMonitor_new, sk |-> kernel_socket, queue |-> <<>>,
     bind_addr |-> None, enabled |-> FALSE, trusted_set |-> FALSE,
     burst |-> [frame |-> NoFrame, n |-> 0, tail |-> NoFrame],
     last |-> NoReceive]
MonitorSysfs ==
    [exists |-> {}, attrs |-> [p \in {} |-> SysDir],
     ifname |-> [i \in {} |-> <<>>], uevent |-> [p \in {} |-> <<>>]]

\* Frames: what the sender put on the wire, the netlink address it came from
\* (nl_pid, nl_groups) and the credentials of the sending process.
Frame(nl_pid, nl_groups, pid, uid, buf) ==
    [nl_pid |-> nl_pid, nl_groups |-> nl_groups, pid |-> pid, uid |-> uid,
     gid |-> uid, buf |-> buf]
UdevFrameBytes ==
    <<"l", "i", "b", "u", "d", "e", "v", "NUL", "xfe", "xed", "xca", "xfe", "(", "NUL", "NUL", "NUL", "(", "NUL", "NUL", "NUL", "(", "NUL", "NUL", "NUL", "NUL", "NUL", "NUL", "NUL", "NUL", "NUL", "NUL", "NUL", "NUL", "NUL", "NUL", "NUL", "NUL", "NUL", "NUL", "NUL">>
    \o <<"A", "C", "T", "I", "O", "N", "=", "b", "i", "n", "d", "NUL", "S", "U", "B", "S", "Y", "S", "T", "E", "M", "=", "p", "c", "i", "NUL", "D", "E", "V", "T", "Y", "P", "E", "=", "h", "o", "s", "t", "1", "NUL">>
KernelFrameBytes == <<"b", "i", "n", "d", "@", "/", "d", "e", "v", "i", "c", "e", "s", "/", "d", "0", "NUL", "A", "C", "T", "I", "O", "N", "=", "b", "i", "n", "d", "NUL", "S", "U", "B", "S", "Y", "S", "T", "E", "M", "=", "p", "c", "i", "NUL">>
BareFrameBytes == <<"@", "/", "d", "e", "v", "i", "c", "e", "s", "/", "d", "0", "NUL", "A", "C", "T", "I", "O", "N", "=", "b", "i", "n", "d", "NUL", "S", "U", "B", "S", "Y", "S", "T", "E", "M", "=", "p", "c", "i", "NUL">>
ShortFrameBytes == <<"b", "i", "n", "d", "@", "/", "d", "NUL", "A", "=", "b", "NUL">>
Frames ==
    { Frame(1, 2, 1, 0, UdevFrameBytes),        \* the daemon, multicast
      Frame(77, 2, 77, 1000, UdevFrameBytes),   \* an unprivileged sender, multicast
      Frame(77, 0, 77, 1000, UdevFrameBytes),   \* an unprivileged sender, unicast
      Frame(77, 0, 77, 0, UdevFrameBytes),      \* a root process, unicast
      Frame(0, 1, 0, 0, KernelFrameBytes),      \* the kernel
      Frame(77, 1, 77, 1000, KernelFrameBytes), \* a process on the kernel group
      Frame(0, 1, 0, 0, BareFrameBytes),
      Frame(0, 1, 0, 0, ShortFrameBytes) }

MonitorIdle == mon = MonitorState(FALSE, 64)

\* A header before construction, on a little-endian or big-endian target.
HeaderState(endian) ==
    [endian |-> endian, built |-> FALSE, header |-> NetlinkHeader_new(endian),
     sent |-> FALSE, wire |-> <<>>, parsed_called |-> FALSE, parsed |-> Err]
HeaderIdle == nh = HeaderState("little")

\* A name, and what encode_devnode_name returned for it and for its encoding.
EncodeState(arg) ==
    [arg |-> arg, called |-> FALSE, res |-> Err, again |-> FALSE, res2 |-> Err]

EncodeIdle == enc = EncodeState(<<>>)

\* A device of sysfs, the files that can be opened, and what read_db
\* returned and left in the device.
ReadDbState(dev, bus, files) ==
    [dev |-> dev, sysfs |-> SysfsOf(dev, bus), files |-> files, called |-> FALSE, ok |-> FALSE]

ReadDbIdle == rd = ReadDbState(UdevDevice_new, TRUE, <<>>)

\* A string on a target of a byte order, with its hash and its bloom bits.
HashState(key, endian) ==
    [key |-> key, endian |-> endian, hashed |-> FALSE, hash |-> u32_of(0),
     bloomed |-> FALSE, bloom |-> {}]

HashIdle == mh = HashState(<<>>, "little")

\* Two hwdb readers, each on a file whose header declares the sizes head[r];
\* pc[r] is where reader r stands in UdevHwdb::new or in TrieEntry::try_from,
\* used[r] the sizes its last decoding of a node has loaded so far, and
\* decodes[r] the number of nodes it has decoded.
ReadersState(head) ==
    [globals |-> SizeGlobals,
     head |-> head,
     pc |-> [r \in {1, 2} |-> "start"],
     used |-> [r \in {1, 2} |-> SizeGlobals],
     decodes |-> [r \in {1, 2} |-> 0]]

ReadersIdle == rs = ReadersState([r \in {1, 2} |-> SizeGlobals])

\* A monitor's filter lists on a target of a byte order, the program
\* filter_update attached to its socket, and the last frame the socket judged.
FilterState(endian) ==
    [endian |-> endian, m |-> UdevMonitor_new, updated |-> FALSE, prog |-> <<>>,
     ran |-> FALSE,
     pkt |-> Packet(u32_of(0), u32_of(0), u32_of(0), u32_of(0), u32_of(0)),
     verdict |-> "ACCEPT"]

FilterIdle == bf = FilterState("little")

\* A monitor's filter lists, the last device handed to passes_filter and the
\* answer.
PassesState ==
    [m |-> UdevMonitor_new, called |-> FALSE, device |-> UdevDevice_new, pass |-> FALSE]

PassesIdle == pf = PassesState

\* A device, the number of add_property_from_string calls made on it, the
\* last answer of get_properties_monitor_buf if the properties were not
\* touched since, and whether a property was touched after an earlier answer.
PropsState(dev) ==
    [dev |-> dev, adds |-> 0, got |-> FALSE, buf |-> <<>>, gets |-> 0,
     touched_after_get |-> FALSE]

PropsIdle == pb = PropsState(UdevDevice_new)

\* A device, the sysfs it lives in, the number of getter calls made on it,
\* the number of times its uevent file was opened, whether a call never
\* returned, and whether uevent_loaded is still as the constructor left it.
UeventState(dev, sysfs) ==
    [dev |-> dev, sysfs |-> sysfs, calls |-> 0, opened |-> 0, hung |-> FALSE,
     fresh |-> TRUE, last |-> "none"]

UeventIdle == ue = UeventState(UdevDevice_new, SysattrSysfs)

\* The read loop before the file is opened: where it stands, the lines not
\* read yet, the String read_line appends to, maj and min, and the number of
\* times read_line returned Ok(0), modulo 2.
UeventLoopState(dev, file) ==
    [pc |-> "open", dev |-> dev, lines |-> file, line |-> <<>>, maj |-> 0, min |-> 0,
     eof_reads |-> 0]

UeventLoopIdle == ul = UeventLoopState(UdevDevice_new, <<>>)

\* ------------------------------------------------------------ list.rs, as a state machine

EntryNames == {"k1", "k2"}
EntryValues == {"v1", "v2"}

\* A list as UdevList::new leaves it, over both values of the unique field
\* that add_entry reads.
InitList ==
    /\ ulist \in {[UdevList_new EXCEPT !.unique = u] : u \in BOOLEAN}
    /\ last_add = NoAdds
    /\ HwdbIdle
    /\ DeviceIdIdle
    /\ SysattrIdle
    /\ EnumIdle
    /\ MonitorIdle
    /\ HeaderIdle
    /\ EncodeIdle
    /\ ReadDbIdle
    /\ HashIdle
    /\ ReadersIdle
    /\ FilterIdle
    /\ PassesIdle
    /\ PropsIdle
    /\ UeventIdle
    /\ UeventLoopIdle

\* UdevList::add_entry(name, value)
AddEntry(name, value) ==
    /\ last_add.count < MaxAdds
    /\ ulist' = add_entry(ulist, name, value)
    /\ last_add' = [latest |-> [n \in DOMAIN last_add.latest \cup {name} |->
                                   IF n = name THEN value ELSE last_add.latest[n]],
                    count |-> last_add.count + 1]
    /\ UNCHANGED <<hw, did, sa, en, mon, nh, enc, rd, mh, rs, bf, pf, pb, ue, ul>>

NextList == \E name \in EntryNames, value \in EntryValues : AddEntry(name, value)

SpecList == InitList /\ [][NextList]_vars

\* ------------------------------------------------------------ hwdb.rs, as a state machine

\* UdevHwdb::new over each database file.
InitHwdb ==
    /\ hw \in {HwdbOpened(db) : db \in Databases}
    /\ ListIdle
    /\ DeviceIdIdle
    /\ SysattrIdle
    /\ EnumIdle
    /\ MonitorIdle
    /\ HeaderIdle
    /\ EncodeIdle
    /\ ReadDbIdle
    /\ HashIdle
    /\ ReadersIdle
    /\ FilterIdle
    /\ PassesIdle
    /\ PropsIdle
    /\ UeventIdle
    /\ UeventLoopIdle

\* UdevHwdb::query(modalias)
Query(modalias) ==
    /\ hw.queried => Len(modalias) <= MaxRequery
    /\ \E r \in {query(hw, modalias)} :
        /\ hw' = [hw EXCEPT !.properties_list = r.properties_list,
                            !.queried = TRUE,
                            !.modalias = modalias,
                            !.ret = r.ret,
                            !.status = r.status,
                            !.decoded = r.decoded,
                            !.refused = r.refused]
        /\ UNCHANGED <<ulist, last_add, did, sa, en, mon, nh, enc, rd, mh, rs, bf, pf, pb, ue, ul>>

NextHwdb == \E modalias \in Modaliases : Query(modalias)

SpecHwdb == InitHwdb /\ [][NextHwdb]_vars

\* UdevHwdb::new over files with child offsets out of range, then queries.
InitDamaged ==
    /\ hw \in {HwdbOpened(db) : db \in DamagedDatabases}
    /\ ListIdle
    /\ DeviceIdIdle
    /\ SysattrIdle
    /\ EnumIdle
    /\ MonitorIdle
    /\ HeaderIdle
    /\ EncodeIdle
    /\ ReadDbIdle
    /\ HashIdle
    /\ ReadersIdle
    /\ FilterIdle
    /\ PassesIdle
    /\ PropsIdle
    /\ UeventIdle
    /\ UeventLoopIdle

SpecDamaged == InitDamaged /\ [][NextHwdb]_vars

\* The database the UdevHwdb was opened on.
hw_db == [head |-> hw.head, hwdb_buf |-> hw.hwdb_buf]

\* ------------------------------------------------------------ device IDs, as a state machine

DeviceSubsystems == {<<"p", "c", "i">>, STR_block, STR_net}
DeviceMajors == {0, 8}
DeviceMinors == {0, 1}
DeviceIfindexes == {0, 2}
BasenameChars == {"0", ":", "."}
Basenames == SeqsUpTo(BasenameChars, MaxBasename) \ {<<>>}

\* A device of sysfs: on a bus for pci, in a class for block and net.
InitDeviceId ==
    /\ did \in {DeviceIdState(LoadedDevice(subsystem, maj, min, ifindex, basename),
                              subsystem = <<"p", "c", "i">>) :
                   subsystem \in DeviceSubsystems, maj \in DeviceMajors,
                   min \in DeviceMinors, ifindex \in DeviceIfindexes,
                   basename \in Basenames}
    /\ ListIdle
    /\ HwdbIdle
    /\ SysattrIdle
    /\ EnumIdle
    /\ MonitorIdle
    /\ HeaderIdle
    /\ EncodeIdle
    /\ ReadDbIdle
    /\ HashIdle
    /\ ReadersIdle
    /\ FilterIdle
    /\ PassesIdle
    /\ PropsIdle
    /\ UeventIdle
    /\ UeventLoopIdle

\* UdevDevice::get_id_filename on the device
GetIdFilename ==
    \E r \in {get_id_filename(did.sysfs, did.dev)} :
        /\ ~did.id_built
        /\ did' = [did EXCEPT !.dev = r.dev, !.id = r.ret, !.id_built = TRUE]
        /\ UNCHANGED <<ulist, last_add, hw, sa, en, mon, nh, enc, rd, mh, rs, bf, pf, pb, ue, ul>>

\* UdevDevice::new_from_device_id on the ID the device gave
NewFromDeviceId ==
    /\ did.id_built
    /\ ~did.looked_up
    /\ did' = [did EXCEPT !.looked_up = TRUE,
                          !.res = new_from_device_id(did.sysfs, did.id)]
    /\ UNCHANGED <<ulist, last_add, hw, sa, en, mon, nh, enc, rd, mh, rs, bf, pf, pb, ue, ul>>

\* UdevDevice::get_id_filename on the device, once more
GetIdFilenameAgain ==
    \E r \in {get_id_filename(did.sysfs, did.dev)} :
        /\ did.id_built
        /\ ~did.again
        /\ did' = [did EXCEPT !.dev = r.dev, !.id_again = r.ret, !.again = TRUE]
        /\ UNCHANGED <<ulist, last_add, hw, sa, en, mon, nh, enc, rd, mh, rs, bf, pf, pb, ue, ul>>

NextDeviceId == GetIdFilename \/ NewFromDeviceId \/ GetIdFilenameAgain

SpecDeviceId == InitDeviceId /\ [][NextDeviceId]_vars

\* ------------------------------------------------------------ sysfs attributes, as a state machine

SysattrNames ==
    {<<"v", "e", "n", "d", "o", "r">>, <<"e", "m", "p", "t", "y">>, <<"s", "e", "c", "r", "e", "t">>, <<"i", "o", "e", "r", "r">>, <<"p", "o", "w", "e", "r">>, <<"d", "r", "i", "v", "e", "r">>, <<"b", "r", "o", "k", "e", "n">>,
     <<"a", "b", "s", "e", "n", "t">>}

InitSysattr ==
    /\ sa = SysattrState(SysattrDevice, SysattrSysfs)
    /\ ListIdle
    /\ HwdbIdle
    /\ DeviceIdIdle
    /\ EnumIdle
    /\ MonitorIdle
    /\ HeaderIdle
    /\ EncodeIdle
    /\ ReadDbIdle
    /\ HashIdle
    /\ ReadersIdle
    /\ FilterIdle
    /\ PassesIdle
    /\ PropsIdle
    /\ UeventIdle
    /\ UeventLoopIdle

\* UdevDevice::get_sysattr_value(sysattr); the result of the first call for
\* each attribute is kept to compare the later ones with.
GetSysattrValue(sysattr) ==
    \E r \in {get_sysattr_value(sa.sysfs, sa.dev, sysattr)} :
    /\ sa' = [sa EXCEPT !.dev = r.dev,
                        !.first = IF sysattr \in DOMAIN sa.first THEN @
                                  ELSE (sysattr :> r.ret) @@ @,
                        !.called = TRUE,
                        !.name = sysattr,
                        !.ret = r.ret,
                        !.looked = r.looked,
                        !.repeated = sysattr \in DOMAIN sa.first]
    /\ UNCHANGED <<ulist, last_add, hw, did, en, mon, nh, enc, rd, mh, rs, bf, pf, pb, ue, ul>>

NextSysattr == \E sysattr \in SysattrNames : GetSysattrValue(sysattr)

SpecSysattr == InitSysattr /\ [][NextSysattr]_vars

\* ------------------------------------------------------------ enumerate.rs, as a state machine

EnumSubsystems == {<<"p", "c", "i">>, <<"b", "l", "o", "c", "k">>}
EnumTags == {<<"s", "e", "a", "t">>, <<"u", "a", "c", "c", "e", "s", "s">>, <<"p", "o", "w", "e", "r">>}
EnumSysnames == {<<"d", "0">>}
EnumSysattrs == {<<"v", "e", "n", "d", "o", "r">>, <<"a", "b", "s", "e", "n", "t">>}
EnumProperties == {<< <<"I", "D", "_", "*">>, <<>> >>, << <<"I", "D", "_", "S", "E", "A", "T">>, <<"s", "e", "a", "t", "0">> >>}
EnumSyspaths == {<<"/", "s", "y", "s", "/", "b", "u", "s", "/", "p", "c", "i", "/", "d", "e", "v", "i", "c", "e", "s", "/", "d", "0">>, <<"/", "d", "e", "v", "/", "s", "d", "a">>, <<>>}

\* The entries over the filter lists of the enumerator.
matches_count(e) ==
    Len(e.sysattr_match_list.list) + Len(e.sysattr_nomatch_list.list)
    + Len(e.subsystem_match_list.list) + Len(e.subsystem_nomatch_list.list)
    + Len(e.sysname_match_list.list) + Len(e.properties_match_list.list)
    + Len(e.tags_match_list.list)

InitEnum ==
    /\ en = EnumState(UdevEnumerate_new, EnumSysfs, EnumDirs)
    /\ ListIdle
    /\ HwdbIdle
    /\ DeviceIdIdle
    /\ SysattrIdle
    /\ MonitorIdle
    /\ HeaderIdle
    /\ EncodeIdle
    /\ ReadDbIdle
    /\ HashIdle
    /\ ReadersIdle
    /\ FilterIdle
    /\ PassesIdle
    /\ PropsIdle
    /\ UeventIdle
    /\ UeventLoopIdle

\* The enumerator after a call that changes its filters or its devices: r is
\* the result of the call, an error leaves the enumerator as it was.
Configured(r) ==
    /\ en' = [en EXCEPT !.e = IF r.ok THEN r.val ELSE @,
                        !.scanned = FALSE, !.ok = FALSE, !.visits = <<>>]
    /\ UNCHANGED <<ulist, last_add, hw, did, sa, mon, nh, enc, rd, mh, rs, bf, pf, pb, ue, ul>>

AddMatchSubsystem(subsystem) ==
    matches_count(en.e) < MaxMatches /\ Configured(add_match_subsystem(en.e, subsystem))

AddNomatchSubsystem(subsystem) ==
    matches_count(en.e) < MaxMatches /\ Configured(add_nomatch_subsystem(en.e, subsystem))

AddMatchSysname(sysname) ==
    matches_count(en.e) < MaxMatches /\ Configured(add_match_sysname(en.e, sysname))

AddMatchSysattr(sysattr) ==
    matches_count(en.e) < MaxMatches /\ Configured(add_match_sysattr(en.e, sysattr))

AddNomatchSysattr(sysattr) ==
    matches_count(en.e) < MaxMatches /\ Configured(add_nomatch_sysattr(en.e, sysattr))

AddMatchProperty(property, value) ==
    matches_count(en.e) < MaxMatches /\ Configured(add_match_property(en.e, property, value))

AddMatchTag(tag) ==
    matches_count(en.e) < MaxMatches /\ Configured(add_match_tag(en.e, tag))

\* set_parent with the device of a syspath.
SetParent(syspath) ==
    /\ new_from_syspath(en.sysfs, syspath).ok
    /\ Configured(Ok(set_parent(en.e, new_from_syspath(en.sysfs, syspath).val)))

AddSyspath(syspath) ==
    en.e.devices_cur < MaxDevices /\ Configured(add_syspath(en.e, en.sysfs, syspath))

\* UdevEnumerate::scan_devices
ScanDevices ==
    \E r \in {scan_devices(en.e, en.sysfs, en.dirs)} :
    /\ en' = [en EXCEPT !.e = r.e, !.scanned = TRUE, !.ok = r.ok, !.visits = r.visits]
    /\ UNCHANGED <<ulist, last_add, hw, did, sa, mon, nh, enc, rd, mh, rs, bf, pf, pb, ue, ul>>

NextEnum ==
    \/ \E subsystem \in EnumSubsystems \cup {<<>>} : AddMatchSubsystem(subsystem)
    \/ \E subsystem \in EnumSubsystems \cup {<<>>} : AddNomatchSubsystem(subsystem)
    \/ \E sysname \in EnumSysnames \cup {<<>>} : AddMatchSysname(sysname)
    \/ \E sysattr \in EnumSysattrs \cup {<<>>} : AddMatchSysattr(sysattr)
    \/ \E sysattr \in EnumSysattrs \cup {<<>>} : AddNomatchSysattr(sysattr)
    \/ \E p \in EnumProperties : AddMatchProperty(p[1], p[2])
    \/ \E tag \in EnumTags \cup {<<>>} : AddMatchTag(tag)
    \/ \E syspath \in EnumSyspaths : SetParent(syspath)
    \/ \E syspath \in EnumSyspaths : AddSyspath(syspath)
    \/ ScanDevices

SpecEnum == InitEnum /\ [][NextEnum]_vars

\* ------------------------------------------------------------ monitor.rs, as a state machine
MonitorNames == {<<"k", "e", "r", "n", "e", "l">>, <<"u", "d", "e", "v">>, <<"U", "D", "E", "V">>, <<"u", "s", "b">>}
MonitorWidths == {32, 64}
\* Sockets handed over by a caller (socket activation): bound, SO_PASSCRED unset.
InheritedSockets ==
    {[kernel_socket EXCEPT !.bound = TRUE, !.nl_pid = OwnPid, !.nl_groups = g] :
        g \in {2}}
FilterSubsystems == {<<<<"p", "c", "i">>, <<>>>>, <<<<"p", "c", "i">>, <<"h", "o", "s", "t", "1">>>>}
FilterTags == {<<"s", "e", "a", "t">>}
TrustedPids == {77}

InitMonitor ==
    /\ \E control_file \in BOOLEAN, width \in MonitorWidths :
          mon = MonitorState(control_file, width)
    /\ ListIdle
    /\ HwdbIdle
    /\ DeviceIdIdle
    /\ SysattrIdle
    /\ EnumIdle
    /\ HeaderIdle
    /\ EncodeIdle
    /\ ReadDbIdle
    /\ HashIdle
    /\ ReadersIdle
    /\ FilterIdle
    /\ PassesIdle
    /\ PropsIdle
    /\ UeventIdle
    /\ UeventLoopIdle

MonitorOthers == UNCHANGED <<ulist, last_add, hw, did, sa, en, nh, enc, rd, mh, rs, bf, pf, pb, ue, ul>>

\* UdevMonitor::new_from_netlink(udev, name)
NewFromNetlink(name) ==
    /\ ~mon.created
    /\ Len(mon.name) = 0
    /\ \E r \in {new_from_netlink(name, mon.control_file)} :
          mon' = [mon EXCEPT !.created = r.ok, !.name = name, !.m = r.m, !.sk = r.sk]
    /\ MonitorOthers

\* UdevMonitor::new_from_netlink_fd(udev, name, fd) with an inherited socket
NewFromNetlinkFd(name, sk) ==
    /\ ~mon.created
    /\ Len(mon.name) = 0
    /\ \E r \in {new_from_netlink_fd(name, 5, mon.control_file, sk)} :
          mon' = [mon EXCEPT !.created = r.ok, !.name = name, !.from_fd = TRUE,
                             !.m = r.m, !.sk = r.sk]
    /\ MonitorOthers

\* UdevMonitor::set_snl_trusted_sender(UdevSocket::new_nl(AF_NETLINK, pid, 0))
SetSnlTrustedSender(pid) ==
    /\ mon.created
    /\ ~mon.trusted_set
    /\ mon' = [mon EXCEPT !.m = set_snl_trusted_sender(@, new_nl(AF_NETLINK, pid, 0)),
                          !.trusted_set = TRUE]
    /\ MonitorOthers

FilterAddMatchSubsystemDevtype(subsystem, devtype) ==
    /\ mon.created
    /\ Len(mon.m.filter_subsystem_list.list) < MaxFilters
    /\ mon' = [mon EXCEPT !.m = filter_add_match_subsystem_devtype(@, subsystem, devtype).m]
    /\ MonitorOthers

FilterAddMatchTag(tag) ==
    /\ mon.created
    /\ Len(mon.m.filter_tag_list.list) < MaxFilters
    /\ mon' = [mon EXCEPT !.m = filter_add_match_tag(@, tag).m]
    /\ MonitorOthers

\* UdevMonitor::enable_receiving
EnableReceiving ==
    /\ mon.created
    /\ ~mon.enabled
    /\ \E r \in {enable_receiving(mon.m, mon.sk)} :
          mon' = [mon EXCEPT !.m = r.m, !.sk = r.sk, !.enabled = r.ok,
                             !.bind_addr = r.bind_addr]
    /\ MonitorOthers

\* A sender puts a frame on the socket: multicast frames reach the groups the
\* socket is bound to, unicast frames reach its port; an attached filter only
\* lets through what it passes.
FrameArrives(f) ==
    /\ mon.created
    /\ mon.sk.bound
    /\ Len(mon.queue) < MaxQueue
    /\ f.nl_groups # 0 => (mon.sk.nl_groups \div f.nl_groups) % 2 = 1
    /\ mon.sk.filter => filter_passes_magic(f.buf)
    /\ mon' = [mon EXCEPT !.queue = Append(@, f)]
    /\ MonitorOthers

\* UdevMonitor::receive_device
ReceiveDevice ==
    /\ mon.created
    /\ \E r \in {receive_device(mon.m, mon.sk, mon.queue, mon.width, MonitorSysfs,
                                RECV_RETRIES)} :
          mon' = [mon EXCEPT !.queue = r.queue,
                             !.last = [called |-> TRUE, ok |-> r.ok, err |-> r.err,
                                       device |-> r.device, frame |-> r.frame,
                                       passcred |-> r.passcred,
                                       attempts |-> RECV_RETRIES - r.tries_left]]
    /\ MonitorOthers

NextMonitor ==
    \/ \E name \in MonitorNames : NewFromNetlink(name)
    \/ \E name \in MonitorNames, sk \in InheritedSockets : NewFromNetlinkFd(name, sk)
    \/ \E pid \in TrustedPids : SetSnlTrustedSender(pid)
    \/ \E f \in FilterSubsystems : FilterAddMatchSubsystemDevtype(f[1], f[2])
    \/ \E tag \in FilterTags : FilterAddMatchTag(tag)
    \/ EnableReceiving
    \/ \E f \in Frames : FrameArrives(f)
    \/ ReceiveDevice

SpecMonitor == InitMonitor /\ [][NextMonitor]_vars

\* ------------------------------------------------------------ receive_device under a burst of frames
\* A monitor whose filters are installed before it listens, and a sender that
\* then puts a burst of equal frames on its socket.  The subscriber calls
\* receive_device on the whole burst, and again where the call ran out of
\* retries.
BurstSizes == {MaxBurst - 2, MaxBurst - 1, MaxBurst}
BurstFrames == {Frame(1, 2, 1, 0, UdevFrameBytes), Frame(77, 2, 77, 1000, UdevFrameBytes)}
BurstNames == {<<"u", "d", "e", "v">>}

InitBurst ==
    /\ \E width \in MonitorWidths : mon = MonitorState(FALSE, width)
    /\ ListIdle
    /\ HwdbIdle
    /\ DeviceIdIdle
    /\ SysattrIdle
    /\ EnumIdle
    /\ HeaderIdle
    /\ EncodeIdle
    /\ ReadDbIdle
    /\ HashIdle
    /\ ReadersIdle
    /\ FilterIdle
    /\ PassesIdle
    /\ PropsIdle
    /\ UeventIdle
    /\ UeventLoopIdle

BurstArrives(f, n) ==
    /\ mon.created
    /\ mon.sk.bound
    /\ mon.burst.n = 0
    /\ Len(mon.queue) = 0
    /\ f.nl_groups # 0 => (mon.sk.nl_groups \div f.nl_groups) % 2 = 1
    /\ mon.sk.filter => filter_passes_magic(f.buf)
    /\ mon' = [mon EXCEPT !.queue = [i \in 1..n |-> f],
                          !.burst = [frame |-> f, n |-> n, tail |-> NoFrame]]
    /\ MonitorOthers

NextBurst ==
    \/ \E name \in BurstNames : NewFromNetlink(name)
    \/ ~mon.enabled /\ \E f \in FilterSubsystems : FilterAddMatchSubsystemDevtype(f[1], f[2])
    \/ ~mon.enabled /\ \E tag \in FilterTags : FilterAddMatchTag(tag)
    \/ EnableReceiving
    \/ \E f \in BurstFrames, n \in BurstSizes : BurstArrives(f, n)
    \/ (Len(mon.queue) = mon.burst.n \/ mon.last.err = "retries") /\ ReceiveDevice

SpecBurst == InitBurst /\ [][NextBurst]_vars

\* ------------------------------------------------------------ receive_device behind filtered frames
\* A monitor with a subsystem filter, and a sender that puts frames of another
\* subsystem on its socket, with or without a frame of the filter's subsystem
\* behind them.

\* Most frames of the other subsystem.
MaxSkipped == 1024

UsbFrameBytes ==
    SubSeq(UdevFrameBytes, 1, HEADER_LEN)
    \o <<"A", "C", "T", "I", "O", "N", "=", "b", "i", "n", "d", "NUL", "S", "U", "B", "S", "Y", "S", "T", "E", "M", "=", "u", "s", "b", "NUL", "D", "E", "V", "T", "Y", "P", "E", "=", "h", "o", "s", "t", "1", "NUL">>

SkipCounts == {1, 2, MaxSkipped - 1, MaxSkipped}
SkipFrames == {Frame(1, 2, 1, 0, UsbFrameBytes)}
SkipTails == {NoFrame, Frame(1, 2, 1, 0, UdevFrameBytes)}

SkipArrives(f, n, g) ==
    /\ mon.created
    /\ mon.sk.bound
    /\ mon.burst.n = 0
    /\ mon.burst.tail = NoFrame
    /\ Len(mon.queue) = 0
    /\ (mon.sk.nl_groups \div f.nl_groups) % 2 = 1
    /\ mon.sk.filter => (filter_passes_magic(f.buf) /\ filter_passes_magic(g.buf))
    /\ mon' = [mon EXCEPT !.queue = [i \in 1..n |-> f]
                                        \o (IF g = NoFrame THEN <<>> ELSE <<g>>),
                          !.burst = [frame |-> f, n |-> n, tail |-> g]]
    /\ MonitorOthers

NextSkip ==
    \/ \E name \in BurstNames : NewFromNetlink(name)
    \/ ~mon.enabled /\ \E f \in FilterSubsystems : FilterAddMatchSubsystemDevtype(f[1], f[2])
    \/ EnableReceiving
    \/ \E f \in SkipFrames, n \in SkipCounts, g \in SkipTails : SkipArrives(f, n, g)
    \/ /\ \/ Len(mon.queue) = mon.burst.n + (IF mon.burst.tail = NoFrame THEN 0 ELSE 1)
          \/ mon.last.err = "retries"
       /\ ReceiveDevice

SpecSkip == InitBurst /\ [][NextSkip]_vars

\* ------------------------------------------------------------ the netlink header, as a state machine
Endians == {"little", "big"}
\* Field values whose bytes are among ByteTokens.
HeaderValues == {0, 40, 10280}

InitHeader ==
    /\ \E endian \in Endians : nh = HeaderState(endian)
    /\ ListIdle
    /\ HwdbIdle
    /\ DeviceIdIdle
    /\ SysattrIdle
    /\ EnumIdle
    /\ MonitorIdle
    /\ EncodeIdle
    /\ ReadDbIdle
    /\ HashIdle
    /\ ReadersIdle
    /\ FilterIdle
    /\ PassesIdle
    /\ PropsIdle
    /\ UeventIdle
    /\ UeventLoopIdle

HeaderOthers == UNCHANGED <<ulist, last_add, hw, did, sa, en, mon, enc, rd, mh, rs, bf, pf, pb, ue, ul>>

\* UdevMonitorNetlinkHeader::new
HeaderNew ==
    /\ ~nh.built
    /\ nh' = [nh EXCEPT !.built = TRUE, !.header = NetlinkHeader_new(nh.endian)]
    /\ HeaderOthers

\* set_properties_off, set_properties_len
SetProperties(off, len) ==
    /\ nh.built /\ ~nh.sent
    /\ nh' = [nh EXCEPT !.header.properties_off = off, !.header.properties_len = len]
    /\ HeaderOthers

\* set_filter_subsystem_hash, set_filter_devtype_hash
SetFilterHashes(subsystem_hash, devtype_hash) ==
    /\ nh.built /\ ~nh.sent
    /\ nh' = [nh EXCEPT !.header.filter_subsystem_hash = subsystem_hash,
                        !.header.filter_devtype_hash = devtype_hash]
    /\ HeaderOthers

\* set_filter_tag_bloom_hi, set_filter_tag_bloom_lo
SetFilterTagBloom(hi, lo) ==
    /\ nh.built /\ ~nh.sent
    /\ nh' = [nh EXCEPT !.header.filter_tag_bloom_hi = hi,
                        !.header.filter_tag_bloom_lo = lo]
    /\ HeaderOthers

\* send_device: the header goes on the wire
SendHeader ==
    /\ nh.built /\ ~nh.sent
    /\ nh' = [nh EXCEPT !.sent = TRUE, !.wire = header_wire(nh.header, nh.endian)]
    /\ HeaderOthers

\* receive_device: UdevMonitorNetlinkHeader::try_from on the received bytes
ParseHeader ==
    /\ nh.sent /\ ~nh.parsed_called
    /\ nh' = [nh EXCEPT !.parsed_called = TRUE, !.parsed = NetlinkHeader_try_from(nh.wire)]
    /\ HeaderOthers

NextHeader ==
    \/ HeaderNew
    \/ \E off \in HeaderValues, len \in HeaderValues : SetProperties(off, len)
    \/ \E s \in HeaderValues, d \in HeaderValues : SetFilterHashes(s, d)
    \/ \E hi \in HeaderValues, lo \in HeaderValues : SetFilterTagBloom(hi, lo)
    \/ SendHeader
    \/ ParseHeader

SpecHeader == InitHeader /\ [][NextHeader]_vars

\* ------------------------------------------------------------ devnode names, as a state machine

\* Characters of the names: whitelisted ones, ones that are escaped, the
\* backslash, NUL, and one that takes four bytes in UTF-8.
EncodeChars == {"a", "Z", "0", "_", "\\", "(", " ", "NUL", "U+1F496"}

EncodeOthers == UNCHANGED <<ulist, last_add, hw, did, sa, en, mon, nh, rd, mh, rs, bf, pf, pb, ue, ul>>

InitEncode ==
    /\ ListIdle
    /\ HwdbIdle
    /\ DeviceIdIdle
    /\ SysattrIdle
    /\ EnumIdle
    /\ MonitorIdle
    /\ HeaderIdle
    /\ \E arg \in SeqsUpTo(EncodeChars, MaxName) : enc = EncodeState(arg)
    /\ ReadDbIdle
    /\ HashIdle
    /\ ReadersIdle
    /\ FilterIdle
    /\ PassesIdle
    /\ PropsIdle
    /\ UeventIdle
    /\ UeventLoopIdle

\* encode_devnode_name(arg)
EncodeDevnodeName ==
    /\ ~enc.called
    /\ enc' = [enc EXCEPT !.called = TRUE, !.res = encode_devnode_name(enc.arg)]
    /\ EncodeOthers

\* encode_devnode_name on the name the first call returned.
EncodeEncoded ==
    /\ enc.called
    /\ enc.res.ok
    /\ ~enc.again
    /\ enc' = [enc EXCEPT !.again = TRUE, !.res2 = encode_devnode_name(enc.res.val)]
    /\ EncodeOthers

NextEncode == EncodeDevnodeName \/ EncodeEncoded

SpecEncode == InitEncode /\ [][NextEncode]_vars

\* ------------------------------------------------------------ read_db, as a state machine

\* The lines of the record files: one of each kind, with values whose first
\* character is or is not the letter of a kind, and a line too short to be
\* taken.
DbLines ==
    {<<"S", ":", "d", "i", "s", "k", "LF">>, <<"L", ":", "7", "LF">>, <<"E", ":", "I", "D", "=", "x", "LF">>, <<"G", ":", "s", "e", "a", "t", "LF">>, <<"W", ":", "5", "LF">>, <<"I", ":", "9", "LF">>,
     <<"X", ":", "z", "z", "LF">>, <<"S", ":", "S", "d", "a", "LF">>, <<"E", ":", "S", "E", "A", "T", "=", "0", "LF">>, <<"N", ":", "LF">>}

\* The block device 8:1, whose ID is b8:1, and a device without an ID.
ReadDbDevices == {LoadedDevice(STR_block, 8, 1, 0, <<"0">>), UdevDevice_new}

\* The file read_db opens for the block device, or no file.
ReadDbFiles ==
    {(<<"/", "u", "d", "e", "v", "/", "d", "a", "t", "a", "/", "b", "8", ":", "1">> :> lines) : lines \in SeqsUpTo(DbLines, MaxLines)} \cup {<<>>}

InitReadDb ==
    /\ ListIdle
    /\ HwdbIdle
    /\ DeviceIdIdle
    /\ SysattrIdle
    /\ EnumIdle
    /\ MonitorIdle
    /\ HeaderIdle
    /\ EncodeIdle
    /\ \E dev \in ReadDbDevices, files \in ReadDbFiles :
          rd = ReadDbState(dev, FALSE, files)
    /\ HashIdle
    /\ ReadersIdle
    /\ FilterIdle
    /\ PassesIdle
    /\ PropsIdle
    /\ UeventIdle
    /\ UeventLoopIdle

\* UdevDevice::read_db on the device
ReadDb ==
    /\ ~rd.called
    /\ \E r \in {read_db(rd.sysfs, rd.dev, rd.files)} :
          rd' = [rd EXCEPT !.called = TRUE, !.ok = r.ok, !.dev = r.dev]
    /\ UNCHANGED <<ulist, last_add, hw, did, sa, en, mon, nh, enc, mh, rs, bf, pf, pb, ue, ul>>

NextReadDb == ReadDb

SpecReadDb == InitReadDb /\ [][NextReadDb]_vars

\* ------------------------------------------------------------ string hashes, as a state machine

\* The strings hashed: subsystem names, device types and tags are ASCII.
KeyChars == {"a", "b", "c"}

InitHash ==
    /\ ListIdle
    /\ HwdbIdle
    /\ DeviceIdIdle
    /\ SysattrIdle
    /\ EnumIdle
    /\ MonitorIdle
    /\ HeaderIdle
    /\ EncodeIdle
    /\ ReadDbIdle
    /\ \E key \in SeqsUpTo(KeyChars, MaxKey), endian \in Endians :
          mh = HashState(key, endian)
    /\ ReadersIdle
    /\ FilterIdle
    /\ PassesIdle
    /\ PropsIdle
    /\ UeventIdle
    /\ UeventLoopIdle

HashOthers == UNCHANGED <<ulist, last_add, hw, did, sa, en, mon, nh, enc, rd, rs, bf, pf, pb, ue, ul>>

\* util::string_hash32(key)
StringHash32 ==
    /\ ~mh.hashed
    /\ mh' = [mh EXCEPT !.hashed = TRUE, !.hash = string_hash32(mh.key, mh.endian)]
    /\ HashOthers

\* util::string_bloom64(key)
StringBloom64 ==
    /\ ~mh.bloomed
    /\ mh' = [mh EXCEPT !.bloomed = TRUE, !.bloom = string_bloom64(mh.key, mh.endian)]
    /\ HashOthers

NextHash == StringHash32 \/ StringBloom64

SpecHash == InitHash /\ [][NextHash]_vars

\* ------------------------------------------------------------ two hwdb readers, as a state machine

Readers == {1, 2}

\* The sizes a header may declare: those of the current format, and larger
\* ones.
HeaderSizes ==
    {SizeGlobals, [node_size |-> 32, child_entry_size |-> 24, value_entry_size |-> 40]}

InitReaders ==
    /\ ListIdle
    /\ HwdbIdle
    /\ DeviceIdIdle
    /\ SysattrIdle
    /\ EnumIdle
    /\ MonitorIdle
    /\ HeaderIdle
    /\ EncodeIdle
    /\ ReadDbIdle
    /\ HashIdle
    /\ \E head \in [Readers -> HeaderSizes] : rs = ReadersState(head)
    /\ FilterIdle
    /\ PassesIdle
    /\ PropsIdle
    /\ UeventIdle
    /\ UeventLoopIdle

ReadersOthers == UNCHANGED <<ulist, last_add, hw, did, sa, en, mon, nh, enc, rd, mh, bf, pf, pb, ue, ul>>

\* UdevHwdb::new of reader r: set_node_size(head.node_size())
NewSetNodeSize(r) ==
    /\ rs.pc[r] = "start"
    /\ rs' = [rs EXCEPT !.globals = set_node_size(@, rs.head[r].node_size),
                        !.pc[r] = "new_child"]
    /\ ReadersOthers

\* UdevHwdb::new of reader r: set_child_entry_size(head.child_entry_size())
NewSetChildEntrySize(r) ==
    /\ rs.pc[r] = "new_child"
    /\ rs' = [rs EXCEPT !.globals = set_child_entry_size(@, rs.head[r].child_entry_size),
                        !.pc[r] = "new_value"]
    /\ ReadersOthers

\* UdevHwdb::new of reader r: set_value_entry_size(head.value_entry_size());
\* the reader is constructed.
NewSetValueEntrySize(r) ==
    /\ rs.pc[r] = "new_value"
    /\ rs' = [rs EXCEPT !.globals = set_value_entry_size(@, rs.head[r].value_entry_size),
                        !.pc[r] = "ready"]
    /\ ReadersOthers

\* TrieEntry::try_from in a query of reader r: let mut idx = hwdb::node_size()
TryFromNodeSize(r) ==
    /\ rs.pc[r] = "ready"
    /\ rs.decodes[r] < MaxDecodes
    /\ rs' = [rs EXCEPT !.used[r].node_size = node_size(rs.globals),
                        !.pc[r] = "try_child"]
    /\ ReadersOthers

\* TrieEntry::try_from: let child_len = hwdb::child_entry_size()
TryFromChildEntrySize(r) ==
    /\ rs.pc[r] = "try_child"
    /\ rs' = [rs EXCEPT !.used[r].child_entry_size = child_entry_size(rs.globals),
                        !.pc[r] = "try_value"]
    /\ ReadersOthers

\* TrieEntry::try_from: let value_len = hwdb::value_entry_size(); the node is
\* decoded.
TryFromValueEntrySize(r) ==
    /\ rs.pc[r] = "try_value"
    /\ rs' = [rs EXCEPT !.used[r].value_entry_size = value_entry_size(rs.globals),
                        !.decodes[r] = @ + 1,
                        !.pc[r] = "ready"]
    /\ ReadersOthers

NextReaders ==
    \E r \in Readers :
        \/ NewSetNodeSize(r)
        \/ NewSetChildEntrySize(r)
        \/ NewSetValueEntrySize(r)
        \/ TryFromNodeSize(r)
        \/ TryFromChildEntrySize(r)
        \/ TryFromValueEntrySize(r)

SpecReaders == InitReaders /\ [][NextReaders]_vars

\* ------------------------------------------------------------ the socket filter, as a state machine

\* Most entries of each filter list.
MaxBpfEntries == 2

\* Subsystem, device type and tag names.
BpfNames == {<<"a">>, <<"a", "a", "a", "a">>}

\* The frames a sender builds for a device: a magic word (the last one is
\* the magic of the C libudev), the hashes of its subsystem and device type
\* (0 for no device type) and the bloom bits of its tags.
BpfPacketsFor(endian) ==
    {Packet(magic, string_hash32(s, endian),
            IF d = <<>> THEN u32_of(0) ELSE string_hash32(d, endian),
            tag_bloom_hi(UNION {string_bloom64(t, endian) : t \in tags}),
            tag_bloom_lo(UNION {string_bloom64(t, endian) : t \in tags})) :
        magic \in {magic_u32, <<254, 202, 237, 254>>},
        s \in BpfNames, d \in BpfNames \cup {<<>>}, tags \in SUBSET BpfNames}
BpfPackets == [endian \in Endians |-> BpfPacketsFor(endian)]
BpfPacketsAll == UNION {BpfPackets[endian] : endian \in Endians}

InitFilter ==
    /\ ListIdle
    /\ HwdbIdle
    /\ DeviceIdIdle
    /\ SysattrIdle
    /\ EnumIdle
    /\ MonitorIdle
    /\ HeaderIdle
    /\ EncodeIdle
    /\ ReadDbIdle
    /\ HashIdle
    /\ ReadersIdle
    /\ \E endian \in Endians : bf = FilterState(endian)
    /\ PassesIdle
    /\ PropsIdle
    /\ UeventIdle
    /\ UeventLoopIdle

FilterOthers == UNCHANGED <<ulist, last_add, hw, did, sa, en, mon, nh, enc, rd, mh, rs, pf, pb, ue, ul>>

\* UdevMonitor::filter_add_match_subsystem_devtype
BpfAddMatchSubsystemDevtype(subsystem, devtype) ==
    /\ ~bf.updated
    /\ Len(bf.m.filter_subsystem_list.list) < MaxBpfEntries
    /\ bf' = [bf EXCEPT !.m = filter_add_match_subsystem_devtype(@, subsystem, devtype).m]
    /\ FilterOthers

\* UdevMonitor::filter_add_match_tag
BpfAddMatchTag(tag) ==
    /\ ~bf.updated
    /\ Len(bf.m.filter_tag_list.list) < MaxBpfEntries
    /\ bf' = [bf EXCEPT !.m = filter_add_match_tag(@, tag).m]
    /\ FilterOthers

\* UdevMonitor::filter_update
BpfFilterUpdate ==
    /\ ~bf.updated
    /\ bf' = [bf EXCEPT !.updated = TRUE,
                        !.prog = filter_update_attach(bf.m, @, bf.endian).prog]
    /\ FilterOthers

\* A frame reaches the socket: the kernel runs the attached program on it
\* (a socket without a program accepts every frame).
BpfFrameArrives(pkt) ==
    /\ bf.updated
    /\ pkt \in BpfPackets[bf.endian]
    /\ bf' = [bf EXCEPT !.ran = TRUE, !.pkt = pkt,
                        !.verdict = IF Len(bf.prog) = 0 THEN "ACCEPT"
                                    ELSE sk_filter(bf.prog, pkt)]
    /\ FilterOthers

NextFilter ==
    \/ \E subsystem \in BpfNames, devtype \in BpfNames \cup {<<>>} :
          BpfAddMatchSubsystemDevtype(subsystem, devtype)
    \/ \E tag \in BpfNames : BpfAddMatchTag(tag)
    \/ BpfFilterUpdate
    \/ \E pkt \in BpfPacketsAll : BpfFrameArrives(pkt)

SpecFilter == InitFilter /\ [][NextFilter]_vars

\* ------------------------------------------------------------ passes_filter, as a state machine

PassSubsystems == {<<"a">>, <<"b">>}
PassDevtypes == {<<"x">>, <<"y">>}
PassTags == {<<"t">>, <<"u">>}

\* A device with its subsystem, device type (none is the empty string) and tags.
PassDevice(subsystem, devtype, tags) ==
    [UdevDevice_new EXCEPT
        !.subsystem = subsystem, !.devtype = devtype,
        !.tags_list = [@ EXCEPT !.list = [k \in 1..Len(tags) |-> UdevEntry_new(tags[k], <<>>)]]]

PassDevices ==
    {PassDevice(subsystem, devtype, tags) :
        subsystem \in PassSubsystems, devtype \in PassDevtypes \cup {<<>>},
        tags \in {<<>>, <<<<"t">>>>, <<<<"u">>>>, <<<<"t">>, <<"u">>>>}}

InitPasses ==
    /\ ListIdle
    /\ HwdbIdle
    /\ DeviceIdIdle
    /\ SysattrIdle
    /\ EnumIdle
    /\ MonitorIdle
    /\ HeaderIdle
    /\ EncodeIdle
    /\ ReadDbIdle
    /\ HashIdle
    /\ ReadersIdle
    /\ FilterIdle
    /\ pf = PassesState
    /\ PropsIdle
    /\ UeventIdle
    /\ UeventLoopIdle

PassesOthers == UNCHANGED <<ulist, last_add, hw, did, sa, en, mon, nh, enc, rd, mh, rs, bf, pb, ue, ul>>

\* UdevMonitor::filter_add_match_subsystem_devtype
PassAddMatchSubsystemDevtype(subsystem, devtype) ==
    /\ ~pf.called
    /\ Len(pf.m.filter_subsystem_list.list) < MaxBpfEntries
    /\ pf' = [pf EXCEPT !.m = filter_add_match_subsystem_devtype(@, subsystem, devtype).m]
    /\ PassesOthers

\* UdevMonitor::filter_add_match_tag
PassAddMatchTag(tag) ==
    /\ ~pf.called
    /\ Len(pf.m.filter_tag_list.list) < MaxBpfEntries
    /\ pf' = [pf EXCEPT !.m = filter_add_match_tag(@, tag).m]
    /\ PassesOthers

\* UdevMonitor::passes_filter(device)
PassesFilter(device) ==
    /\ pf' = [pf EXCEPT !.called = TRUE, !.device = device,
                        !.pass = passes_filter(pf.m, MonitorSysfs, device).pass]
    /\ PassesOthers

NextPasses ==
    \/ \E subsystem \in PassSubsystems, devtype \in PassDevtypes \cup {<<>>} :
          PassAddMatchSubsystemDevtype(subsystem, devtype)
    \/ \E tag \in PassTags : PassAddMatchTag(tag)
    \/ \E device \in PassDevices : PassesFilter(device)

SpecPasses == InitPasses /\ [][NextPasses]_vars

\* ------------------------------------------------------------ the properties buffer, as a state machine

\* Most calls of add_property_from_string, and of get_properties_monitor_buf.
MaxPropertyCalls == 2

\* The strings handed to add_property_from_string: additions, a private
\* property, removals (no value), and a string without a key.
PropertyStrings == {<<"A", "=", "1">>, <<"A", "=", "2">>, <<".", "p", "=", "1">>, <<"A", "=">>, <<"k", "=">>, <<"=", "x">>}

\* A device after n calls of add_property_from_string("k=v"): the list is
\* not unique, so each call pushed an entry back.
DeviceWithProperties(n) ==
    [UdevDevice_new EXCEPT
        !.properties_list.list = [i \in 1..n |-> UdevEntry_new(<<"k">>, <<"v">>)]]

PropertyCounts == {0, 1, ENVP_LEN - 1, ENVP_LEN}

InitProps ==
    /\ ListIdle
    /\ HwdbIdle
    /\ DeviceIdIdle
    /\ SysattrIdle
    /\ EnumIdle
    /\ MonitorIdle
    /\ HeaderIdle
    /\ EncodeIdle
    /\ ReadDbIdle
    /\ HashIdle
    /\ ReadersIdle
    /\ FilterIdle
    /\ PassesIdle
    /\ \E n \in PropertyCounts : pb = PropsState(DeviceWithProperties(n))
    /\ UeventIdle
    /\ UeventLoopIdle

PropsOthers == UNCHANGED <<ulist, last_add, hw, did, sa, en, mon, nh, enc, rd, mh, rs, bf, pf, ue, ul>>

\* UdevDevice::add_property_from_string(property)
AddPropertyFromString(property) ==
    /\ pb.adds < MaxPropertyCalls
    /\ pb' = [pb EXCEPT !.dev = add_property_from_string(@, property),
                        !.adds = @ + 1, !.got = FALSE,
                        !.touched_after_get = @ \/ pb.gets > 0]
    /\ PropsOthers

\* UdevDevice::get_properties_monitor_buf
GetPropertiesMonitorBuf ==
    /\ pb.gets < MaxPropertyCalls
    /\ \E r \in {get_properties_monitor_buf(pb.dev)} :
          pb' = [pb EXCEPT !.dev = r.dev, !.got = TRUE, !.buf = r.ret, !.gets = @ + 1]
    /\ PropsOthers

NextProps ==
    \/ \E property \in PropertyStrings : AddPropertyFromString(property)
    \/ GetPropertiesMonitorBuf

SpecProps == InitProps /\ [][NextProps]_vars

\* ------------------------------------------------------------ the uevent getters, as a state machine

MaxGetterCalls == 3

UeventSyspath == <<"/", "s", "y", "s", "/", "d", "e", "v", "i", "c", "e", "s", "/", "d", "0">>

\* The uevent file of a disk, one whose first line is DEVTYPE, the one of a
\* network interface, and an empty one.
UeventFiles ==
    {<< <<"M", "A", "J", "O", "R", "=", "8", "LF">>, <<"M", "I", "N", "O", "R", "=", "1", "LF">>, <<"D", "E", "V", "N", "A", "M", "E", "=", "s", "d", "a", "LF">>, <<"D", "E", "V", "T", "Y", "P", "E", "=", "d", "i", "s", "k", "LF">> >>,
     << <<"D", "E", "V", "T", "Y", "P", "E", "=", "u", "s", "b", "_", "d", "e", "v", "i", "c", "e", "LF">>, <<"M", "A", "J", "O", "R", "=", "1", "8", "9", "LF">>, <<"M", "I", "N", "O", "R", "=", "2", "LF">> >>,
     << <<"I", "N", "T", "E", "R", "F", "A", "C", "E", "=", "e", "t", "h", "0", "LF">>, <<"I", "F", "I", "N", "D", "E", "X", "=", "2", "LF">> >>,
     << <<"D", "R", "I", "V", "E", "R", "=", "a", "h", "c", "i", "LF">> >>,
     << >>}

UeventSysfs(file) ==
    [exists |-> {UeventSyspath},
     attrs |-> [p \in {} |-> SysDir],
     ifname |-> [i \in {} |-> <<>>],
     uevent |-> (UeventSyspath :> file)]

InitUevent ==
    /\ ListIdle
    /\ HwdbIdle
    /\ DeviceIdIdle
    /\ SysattrIdle
    /\ EnumIdle
    /\ MonitorIdle
    /\ HeaderIdle
    /\ EncodeIdle
    /\ ReadDbIdle
    /\ HashIdle
    /\ ReadersIdle
    /\ FilterIdle
    /\ PassesIdle
    /\ PropsIdle
    /\ UeventLoopIdle
    /\ \E file \in UeventFiles :
          ue = UeventState(new_from_syspath(UeventSysfs(file), UeventSyspath).val,
                           UeventSysfs(file))

UeventOthers == UNCHANGED <<ulist, last_add, hw, did, sa, en, mon, nh, enc, rd, mh, rs, bf, pf, pb, ul>>

\* What a getter call leaves behind; a call whose read loop never ends does
\* not return.
UeventCalled(r, name) ==
    /\ ~ue.hung
    /\ ue.calls < MaxGetterCalls
    /\ ue' = [ue EXCEPT !.dev = r.dev, !.calls = @ + 1,
                        !.opened = @ + (IF r.opened THEN 1 ELSE 0),
                        !.hung = (r.read_status = "diverges"), !.last = name]
    /\ UeventOthers

\* UdevDevice::get_devtype
UeGetDevtype == \E r \in {get_devtype(ue.sysfs, ue.dev)} : UeventCalled(r, "get_devtype")

\* UdevDevice::get_devnum
UeGetDevnum == \E r \in {get_devnum(ue.sysfs, ue.dev)} : UeventCalled(r, "get_devnum")

\* UdevDevice::get_ifindex
UeGetIfindex == \E r \in {get_ifindex(ue.sysfs, ue.dev)} : UeventCalled(r, "get_ifindex")

\* UdevDevice::get_devnode
UeGetDevnode == \E r \in {get_devnode(ue.sysfs, ue.dev)} : UeventCalled(r, "get_devnode")

\* UdevDevice::set_uevent_loaded(TRUE), the public setter
UeSetUeventLoaded ==
    /\ ~ue.hung
    /\ ~ue.dev.uevent_loaded
    /\ ue' = [ue EXCEPT !.dev.uevent_loaded = TRUE, !.fresh = FALSE,
                        !.last = "set_uevent_loaded"]
    /\ UeventOthers

NextUevent ==
    \/ UeGetDevtype
    \/ UeGetDevnum
    \/ UeGetIfindex
    \/ UeGetDevnode
    \/ UeSetUeventLoaded

SpecUevent == InitUevent /\ [][NextUevent]_vars

\* ------------------------------------------------------------ the read loop of read_uevent_file, pass by pass

MaxUeventLines == 3

UeventLines ==
    {<<"D", "E", "V", "T", "Y", "P", "E", "=", "d", "i", "s", "k", "LF">>, <<"I", "F", "I", "N", "D", "E", "X", "=", "2", "LF">>, <<"D", "E", "V", "N", "A", "M", "E", "=", "s", "d", "a", "LF">>, <<"M", "A", "J", "O", "R", "=", "8", "LF">>, <<"M", "I", "N", "O", "R", "=", "1", "LF">>,
     <<"A", "=", "1", "LF">>}

\* Every file of at most MaxUeventLines of these lines, each at most once,
\* in every order.
UeventLoopFiles ==
    UNION {{f \in [1..n -> UeventLines] : \A i, j \in 1..n : f[i] = f[j] => i = j}
           : n \in 0..MaxUeventLines}

InitUeventLoop ==
    /\ ListIdle
    /\ HwdbIdle
    /\ DeviceIdIdle
    /\ SysattrIdle
    /\ EnumIdle
    /\ MonitorIdle
    /\ HeaderIdle
    /\ EncodeIdle
    /\ ReadDbIdle
    /\ HashIdle
    /\ ReadersIdle
    /\ FilterIdle
    /\ PassesIdle
    /\ PropsIdle
    /\ UeventIdle
    /\ \E file \in UeventLoopFiles :
          ul = UeventLoopState([UdevDevice_new EXCEPT !.syspath = UeventSyspath,
                                                      !.uevent_loaded = TRUE], file)

UeventLoopOthers == UNCHANGED <<ulist, last_add, hw, did, sa, en, mon, nh, enc, rd, mh, rs, bf, pf, pb, ue>>

\* read_uevent_file up to the loop: the file is opened, uevent_loaded set,
\* line, maj and min initialised.
UeventOpen ==
    /\ ul.pc = "open"
    /\ ul' = [ul EXCEPT !.pc = "loop", !.dev.uevent_loaded = TRUE, !.line = <<>>,
                        !.maj = 0, !.min = 0]
    /\ UeventLoopOthers

\* One pass through the loop: read_line, then the body.  After a `break` the
\* function sets devnum and returns.
UeventReadLine ==
    /\ ul.pc = "loop"
    /\ \E it \in {uevent_iteration(ul.dev, ul.lines, ul.line, ul.maj, ul.min)} :
          ul' = IF it.ctl = "break"
                THEN [pc |-> "done", dev |-> [it.dev EXCEPT !.devnum = makedev(it.maj, it.min)],
                      lines |-> it.lines, line |-> it.line, maj |-> it.maj, min |-> it.min,
                      eof_reads |-> (ul.eof_reads + 1) % 2]
                ELSE [pc |-> "loop", dev |-> it.dev,
                      lines |-> it.lines, line |-> it.line, maj |-> it.maj, min |-> it.min,
                      eof_reads |-> (ul.eof_reads + (IF it.read = 0 THEN 1 ELSE 0)) % 2]
    /\ UeventLoopOthers

NextUeventLoop ==
    \/ UeventOpen
    \/ UeventReadLine

\* The thread that called read_uevent_file keeps running: a pass that can be
\* made is made.
SpecUeventLoop ==
    InitUeventLoop /\ [][NextUeventLoop]_vars /\ WF_vars(UeventOpen) /\ WF_vars(UeventReadLine)

\* ------------------------------------------------------------ claims

\* C1: for a valid hwdb that stores a property (K, V) under a pattern P with a
\* glob metacharacter, query(m) returns a list that contains (K, V) for every
\* modalias m that P matches.
C1_QueryReturnsGlobMatches ==
    hw.queried =>
        \A e \in stored_entries(hw_db) :
            (is_glob(e.pattern) /\ glob_matches(e.pattern, hw.modalias)) =>
                /\ hw.ret = "Some"
                /\ <<e.name, e.value>> \in list_pairs(hw.properties_list)

\* C2: query(m) yields None whenever no pattern stored in the hwdb matches m.
C2_NoMatchYieldsNone ==
    hw.queried =>
        ((\A e \in stored_entries(hw_db) : ~glob_matches(e.pattern, hw.modalias))
            => hw.ret = "None")

\* C3: for a list in unique mode, after any sequence of add_entry calls the
\* list holds exactly one entry per distinct name added, and that entry's
\* value is the value of the most recent add for that name.
C3_UniqueKeepsLatest ==
    ulist.unique =>
        /\ \A k \in 1..Len(ulist.list) : ulist.list[k].name \in DOMAIN last_add.latest
        /\ \A n \in DOMAIN last_add.latest :
               /\ Cardinality({k \in 1..Len(ulist.list) : ulist.list[k].name = n}) = 1
               /\ \A k \in 1..Len(ulist.list) :
                      ulist.list[k].name = n => ulist.list[k].value = last_add.latest[n]

\* C3 witness: a unique list that was given a second value for a name it held.
C3_Witness ==
    /\ ulist.unique
    /\ last_add.count > Len(ulist.list)
    /\ Len(ulist.list) = 2

\* C5: for every device whose ID is "+<subsystem>:<basename of devpath>", for
\* every basename (":" included), new_from_device_id on that ID looks up the
\* device of that subsystem and that sysname.
C5_PlusIdRoundTrip ==
    (did.looked_up /\ starts_with(did.id, <<"+">>)) =>
        /\ did.res.ok
        /\ did.res.val.syspath \in SysfsOf(did.dev, did.dev.subsystem = <<"p", "c", "i">>).exists

\* C10: a repeated call of get_sysattr_value for the same attribute returns
\* what the first call returned, and is answered from the device's cache
\* without going to the file system again; an attribute that could not be
\* read stays absent.
C10_RepeatedSysattrSameFromCache ==
    sa.repeated => (sa.ret = sa.first[sa.name] /\ ~sa.looked)
\* The names of the entries of a list.
entry_names(l) == {l.list[k].name : k \in 1..Len(l.list)}

\* C4: for every subsystem match list S+, no-match list S- and device D, the
\* subsystem matcher of the enumerator accepts D if and only if the subsystem
\* of D is not in S- and S+ is empty or holds the subsystem of D.  D ranges
\* over the devices a scan hands to the matcher; its subsystem is the one
\* sysfs gives it.
C4_SubsystemMatcherAccepts ==
    en.scanned =>
        \A k \in 1..Len(en.visits) :
            LET D == get_subsystem(en.sysfs, en.visits[k].dev).dev IN
            en.visits[k].accepted <=>
                /\ D.subsystem \notin entry_names(en.e.subsystem_nomatch_list)
                /\ \/ entry_names(en.e.subsystem_match_list) = {}
                   \/ D.subsystem \in entry_names(en.e.subsystem_match_list)

\* The device of a syspath passes the subsystem and sysname filters of the
\* enumerator.
passes_configured_filters(e, sysfs, syspath) ==
    /\ match_subsystem(e, get_subsystem(sysfs, [UdevDevice_new EXCEPT !.syspath = syspath]).dev.subsystem)
    /\ match_sysname(e, rsplit_first(syspath, "/"))

\* C9: scan_devices on an enumerator with no tag filter and no parent
\* succeeds and leaves in the result list the syspath of every device under
\* /sys that passes the configured filters; with no filter at all, every
\* device.
C9_ScanAllSucceeds ==
    (en.scanned /\ Len(en.e.tags_match_list.list) = 0 /\ ~en.e.parent.some) =>
        /\ en.ok
        /\ \A syspath \in en.sysfs.exists :
              (matches_count(en.e) = 0 \/ passes_configured_filters(en.e, en.sysfs, syspath))
                  => \E k \in 1..Len(en.e.devices) : en.e.devices[k] = syspath
\* C6: receive_device never returns a device for a frame that came without
\* an SCM_CREDENTIALS message (the socket did not pass credentials) or whose
\* sender credentials carry a uid other than 0.
C6_OnlyRootCredentialedFrames ==
    (mon.last.called /\ mon.last.ok)
        => (mon.last.passcred /\ mon.last.frame.uid = 0)

\* C7: a monitor created for the daemon group keeps the Udev group when
\* <run>/udev/control is present, and is created disarmed (group None, no
\* frame ever queued on it) when the file is absent.
C7_ControlFileKeepsUdevGroup ==
    (mon.created /\ group_from_str(mon.name) = "Udev")
        => IF mon.control_file
           THEN mon.m.snl_group = "Udev"
           ELSE mon.m.snl_group = "None" /\ Len(mon.queue) = 0

\* C8: after new_from_netlink(name) followed by a successful
\* enable_receiving, the address passed to bind carries the requested
\* multicast group: 1 for `kernel`, 2 for `udev`.
C8_BindCarriesRequestedGroup ==
    (mon.created /\ ~mon.from_fd /\ ~mon.trusted_set /\ mon.enabled /\ mon.bind_addr.some)
        => mon.bind_addr.val.nl_groups = group_as_u32(group_from_str(mon.name))
\* C11: a device built by new_from_nulstr from the property block of a
\* received frame has its fields set per the key table: a SUBSYSTEM record
\* sets the subsystem and a DEVTYPE record the devtype, and neither key is
\* stored as a property.
table_field_set(device, key, field, records) ==
    \A i \in 1..Len(records) :
        starts_with(records[i], key \o <<"=">>)
            => /\ field = strip_prefix(records[i], key \o <<"=">>).val
               /\ entry_by_name_idx(device.properties_list, key) = 0
C11_NulstrSetsFields ==
    (mon.last.called /\ mon.last.ok)
        => LET buf == mon.last.frame.buf
               records == nulstr_keys(SliceFrom(buf, frame_bufpos(buf).val.bufpos))
           IN  /\ table_field_set(mon.last.device, <<"S", "U", "B", "S", "Y", "S", "T", "E", "M">>,
                                  mon.last.device.subsystem, records)
               /\ table_field_set(mon.last.device, <<"D", "E", "V", "T", "Y", "P", "E">>,
                                  mon.last.device.devtype, records)
\* C12: the header send_device puts on the wire carries the prefix
\* "libudev\0" and the bytes fe ed ca fe (0xfeedcafe, big-endian) at offset
\* 8, and the receive-side parser accepts it and returns equal field values.
C12_SentHeaderIsAccepted ==
    nh.parsed_called
        => /\ Len(nh.wire) = HEADER_LEN
           /\ SubSeq(nh.wire, 1, 8) = <<"l", "i", "b", "u", "d", "e", "v", "NUL">>
           /\ SubSeq(nh.wire, 9, 12) = <<"xfe", "xed", "xca", "xfe">>
           /\ nh.parsed.ok
           /\ nh.parsed.val = nh.header
\* C13: every call to receive_device stops after at most 1024 receive
\* attempts; called on more than 1024 queued frames that are each valid but
\* filtered out, it makes exactly 1024 attempts and returns the failure for
\* exceeded retries.
burst_valid_but_filtered ==
    Let(receive_frame(mon.m, mon.sk, mon.burst.frame, mon.width), LAMBDA r :
        r.ok /\ ~passes_filter(mon.m, MonitorSysfs, r.device).pass)
C13_ReceiveStopsAfterRetries ==
    mon.last.called
        => /\ mon.last.attempts <= RECV_RETRIES
           /\ (/\ mon.burst.n > RECV_RETRIES
               /\ Len(mon.queue) + mon.last.attempts = mon.burst.n
               /\ burst_valid_but_filtered)
                 => (mon.last.err = "retries" /\ mon.last.attempts = RECV_RETRIES)
C13_Witness ==
    /\ mon.last.called
    /\ mon.burst.n > RECV_RETRIES
    /\ burst_valid_but_filtered
    /\ mon.last.err = "retries"
    /\ mon.last.attempts = RECV_RETRIES
    /\ Len(mon.queue) = mon.burst.n - RECV_RETRIES
\* The characters [0-9A-Za-z#+-.:=@_] that a devnode name keeps.
devnode_plain ==
    {"0", "1", "2", "3", "4", "5", "6", "7", "8", "9"}
    \cup {"a", "b", "c", "d", "e", "f", "g", "h", "i", "j", "k", "l", "m",
          "n", "o", "p", "q", "r", "s", "t", "u", "v", "w", "x", "y", "z"}
    \cup {"A", "B", "C", "D", "E", "F", "G", "H", "I", "J", "K", "L", "M",
          "N", "O", "P", "Q", "R", "S", "T", "U", "V", "W", "X", "Y", "Z"}
    \cup {"#", "+", "-", ".", ":", "=", "@", "_"}

\* The escape `\xhh` with the lower-case hex code of a single-byte character.
devnode_escape(c) ==
    CASE c = "NUL" -> <<"\\", "x", "0", "0">>
      [] c = " " -> <<"\\", "x", "2", "0">>
      [] c = "(" -> <<"\\", "x", "2", "8">>
      [] c = "\\" -> <<"\\", "x", "5", "c">>

\* What one character of a name becomes.
devnode_char(c) ==
    IF c \in devnode_plain \/ c = "U+1F496" THEN <<c>> ELSE devnode_escape(c)

\* The characters of s mapped one by one.
RECURSIVE devnode_mapped(_)
devnode_mapped(s) ==
    IF s = <<>> THEN <<>> ELSE devnode_char(Head(s)) \o devnode_mapped(Tail(s))

\* The part of s in front of its first NUL.
RECURSIVE before_nul(_)
before_nul(s) ==
    IF s = <<>> \/ Head(s) = "NUL" THEN <<>> ELSE <<Head(s)>> \o before_nul(Tail(s))

\* Re-encoding a name of plain characters gives the name back.
devnode_idempotent ==
    (enc.again /\ \A k \in 1..Len(enc.arg) : enc.arg[k] \in devnode_plain)
        => (enc.res2.ok /\ enc.res2.val = enc.arg /\ enc.res.val = enc.arg)

\* C14: encode_devnode_name fails on the empty name and maps each character
\* of any other name on its own: [0-9A-Za-z#+-.:=@_] and multi-byte
\* characters are kept, every other single-byte character becomes \xhh; so
\* a name of kept characters is returned unchanged, also when encoded again.
C14_EncodeMapsEachCharacter ==
    enc.called
        => /\ (enc.arg = <<>>) => ~enc.res.ok
           /\ (enc.arg # <<>>)
                => (enc.res.ok /\ enc.res.val = devnode_mapped(enc.arg))
           /\ devnode_idempotent

\* C14, amended: the characters mapped are those in front of the first NUL of
\* the name; the NUL and what follows it are dropped.
C14_EncodeMapsUpToNul ==
    enc.called
        => /\ (enc.arg = <<>>) => ~enc.res.ok
           /\ (enc.arg # <<>>)
                => (enc.res.ok /\ enc.res.val = devnode_mapped(before_nul(enc.arg)))
           /\ devnode_idempotent

\* A name with an escaped character in front of a NUL was encoded, and its
\* encoding encoded again.
C14_Witness ==
    /\ enc.again
    /\ Len(enc.arg) = 3
    /\ enc.arg[1] = "("
    /\ enc.arg[2] = "NUL"
    /\ enc.res.val = <<"\\", "x", "2", "8">>
\* C15: during a query the engine decodes a node only at an offset smaller
\* than the length of the buffer, in the radix walk and in the glob descent;
\* a child entry whose offset is out of range is not followed.
C15_DecodedOffsetsInBuffer ==
    hw.queried
        => /\ \A off \in hw.decoded : off < hw.hwdb_buf.len
           /\ hw.decoded \cap hw.refused = {}

\* A query met child entries out of range in the radix walk (1000) and in
\* the glob descent (400), and decoded the nodes in range.
C15_Witness ==
    /\ hw.queried
    /\ hw.status = "ok"
    /\ {400, 1000, 4000} \subseteq hw.refused
    /\ hw.decoded = {248, 192, 80}
\* C16: the list a query returns holds no two entries of the same name; where
\* several matching nodes carry the same key, one entry remains.
C16_QueryListUniqueNames ==
    hw.queried
        => \A j, k \in 1..Len(hw.properties_list.list) :
              hw.properties_list.list[j].name = hw.properties_list.list[k].name => j = k
\* The value of a record line: what follows the type letter and the colon,
\* without the line feed.
record_value(line) ==
    IF line[Len(line)] = "LF" THEN SubSeq(line, 3, Len(line) - 1) ELSE SliceFrom(line, 2)

\* What a device holds of its record: devlinks, tags and properties (name,
\* value, ordinal) in the order added, and the three numbers.
record_of(dev) ==
    [devlinks |-> [k \in 1..Len(dev.devlinks_list.list) |-> dev.devlinks_list.list[k].name],
     tags |-> [k \in 1..Len(dev.tags_list.list) |-> dev.tags_list.list[k].name],
     properties |-> [k \in 1..Len(dev.properties_list.list) |->
                        <<dev.properties_list.list[k].name,
                          dev.properties_list.list[k].value,
                          dev.properties_list.list[k].num>>],
     devlink_priority |-> dev.devlink_priority,
     watch_handle |-> dev.watch_handle,
     usec_initialized |-> dev.usec_initialized]

\* The record after one more line of the file.
record_line(rec, line) ==
    LET v == record_value(line) IN
    CASE line[1] = "S" -> [rec EXCEPT !.devlinks = Append(@, <<"/", "d", "e", "v", "/">> \o v)]
      [] line[1] = "L" -> [rec EXCEPT !.devlink_priority = digits_value(v, 0)]
      [] line[1] = "E" ->
            [rec EXCEPT !.properties =
                Append(@, <<split(v, "=")[1], split(v, "=")[2], 1>>)]
      [] line[1] = "G" -> [rec EXCEPT !.tags = Append(@, v)]
      [] line[1] = "W" -> [rec EXCEPT !.watch_handle = digits_value(v, 0)]
      [] line[1] = "I" -> [rec EXCEPT !.usec_initialized = digits_value(v, 0)]
      [] OTHER -> rec

\* The record after the lines of the file from the k-th on.
RECURSIVE record_lines(_, _, _)
record_lines(rec, lines, k) ==
    IF k > Len(lines) THEN rec ELSE record_lines(record_line(rec, lines[k]), lines, k + 1)

\* C17: read_db applies every line of the record file in order: S: adds the
\* devlink /dev/<v>, L: sets the devlink priority, E: adds the property K=V
\* with ordinal 1, G: adds the tag, W: sets the watch handle, I: sets
\* usec_initialized; a line of another prefix is ignored and the lines after
\* it are applied.
C17_ReadDbAppliesEveryLine ==
    (rd.called /\ rd.ok)
        => record_of(rd.dev)
             = record_lines(record_of(UdevDevice_new), rd.files[<<"/", "u", "d", "e", "v", "/", "d", "a", "t", "a", "/", "b", "8", ":", "1">>], 1)
\* One block of the reference MurmurHash2 mixed into h: the four bytes read
\* little-endian, every product taken modulo 2^32.
murmur2_block(h, data) ==
    Let(wrapping_mul(data, MURMUR_M), LAMBDA k1 :
    Let(xor32(k1, shr32(k1, 24)), LAMBDA k2 :
        xor32(wrapping_mul(h, MURMUR_M), wrapping_mul(k2, MURMUR_M))))

RECURSIVE murmur2_blocks(_, _)
murmur2_blocks(h, key) ==
    IF Len(key) < 4 THEN h
    ELSE murmur2_blocks(murmur2_block(h, SubSeq(key, 1, 4)), SubSeq(key, 5, Len(key)))

\* The bytes after the last whole block, xored into h from the last one down.
RECURSIVE murmur2_tail(_, _)
murmur2_tail(h, rest) ==
    IF Len(rest) = 0 THEN h
    ELSE murmur2_tail(xor32(h, byte_shl(rest[Len(rest)], 8 * (Len(rest) - 1))),
                      SubSeq(rest, 1, Len(rest) - 1))

\* The reference 32-bit MurmurHash2 of the bytes with seed 0.
murmur2_reference(key) ==
    Let(murmur2_tail(murmur2_blocks(u32_of(Len(key)), key),
                     SubSeq(key, Len(key) - (Len(key) % 4) + 1, Len(key))),
        LAMBDA h1 :
    Let(wrapping_mul(h1, MURMUR_M), LAMBDA h2 :
    Let(xor32(h2, shr32(h2, 13)), LAMBDA h3 :
    Let(wrapping_mul(h3, MURMUR_M), LAMBDA h4 :
        xor32(h4, shr32(h4, 15))))))

\* C18: string_hash32(s) is the reference 32-bit MurmurHash2 of the bytes of
\* s with seed 0, blocks read little-endian and products taken modulo 2^32;
\* the bloom bits are those of that hash.
C18_HashIsMurmur2 ==
    /\ mh.hashed => mh.hash = murmur2_reference(as_bytes(mh.key))
    /\ mh.bloomed =>
          mh.bloom = Let(murmur2_reference(as_bytes(mh.key)), LAMBDA hash :
                         {lo16(hash) % 64, lo16(shr32(hash, 6)) % 64,
                          lo16(shr32(hash, 12)) % 64, lo16(shr32(hash, 18)) % 64})
\* C19: when the hwdb stores a pattern without wildcards that equals the
\* modalias, so that the walk consumes the whole modalias and stands on the
\* pattern's node, the query emits every value of that node as a property.
C19_LiteralPatternEmitsValues ==
    hw.queried =>
        \A e \in stored_entries(hw_db) :
            (~is_glob(e.pattern) /\ e.pattern = hw.modalias) =>
                <<e.name, e.value>> \in list_pairs(hw.properties_list)
\* C20: with two readers whose files declare different sizes, in every
\* interleaving each reader decodes its nodes with the node, child-entry and
\* value-entry sizes of its own header.
C20_ReaderUsesOwnSizes ==
    \A r \in Readers :
        (rs.pc[r] = "ready" /\ rs.decodes[r] > 0) => rs.used[r] = rs.head[r]
\* C21: the program filter_update builds accepts a frame exactly when the
\* frame's magic word is not UDEV_MONITOR_MAGIC, or (the tag list is empty or
\* the frame's bloom words cover the bloom bits of some tag) and (the
\* subsystem list is empty or some entry's subsystem hash, and device type
\* hash if it has a device type, are the frame's); otherwise it drops it.
tag_list_accepts(list, pkt, endian) ==
    \/ Len(list) = 0
    \/ \E k \in 1..Len(list) :
          Let(string_bloom64(list[k].name, endian), LAMBDA bits :
              /\ and32(pkt.tag_bloom_hi, tag_bloom_hi(bits)) = tag_bloom_hi(bits)
              /\ and32(pkt.tag_bloom_lo, tag_bloom_lo(bits)) = tag_bloom_lo(bits))

subsystem_list_accepts(list, pkt, endian) ==
    \/ Len(list) = 0
    \/ \E k \in 1..Len(list) :
          /\ pkt.subsystem_hash = string_hash32(list[k].name, endian)
          /\ \/ Len(list[k].value) = 0
             \/ pkt.devtype_hash = string_hash32(list[k].value, endian)

C21_FilterVerdictAsSpecified ==
    (bf.ran /\ Len(bf.prog) > 0) =>
        (bf.verdict = "ACCEPT"
            <=> \/ bf.pkt.magic # magic_u32
                \/ /\ tag_list_accepts(bf.m.filter_tag_list.list, bf.pkt, bf.endian)
                   /\ subsystem_list_accepts(bf.m.filter_subsystem_list.list, bf.pkt, bf.endian))
\* C22: passes_filter says yes exactly when (the subsystem list is empty or
\* some entry names the device's subsystem and has no device type or the
\* device's device type) and (the tag list is empty or the device carries one
\* of its tags); an entry without device type takes any device type, none
\* included.
subsystem_entry_matches(entry, device) ==
    /\ entry.name = device.subsystem
    /\ \/ Len(entry.value) = 0
       \/ entry.value = device.devtype

C22_PassesFilterAsSpecified ==
    pf.called =>
        (pf.pass
            <=> /\ \/ Len(pf.m.filter_subsystem_list.list) = 0
                   \/ \E i \in 1..Len(pf.m.filter_subsystem_list.list) :
                         subsystem_entry_matches(pf.m.filter_subsystem_list.list[i], pf.device)
                /\ \/ Len(pf.m.filter_tag_list.list) = 0
                   \/ \E i \in 1..Len(pf.m.filter_tag_list.list) :
                         \E j \in 1..Len(pf.device.tags_list.list) :
                            pf.device.tags_list.list[j].name = pf.m.filter_tag_list.list[i].name)
\* C23: a call of receive_device that reads a valid frame failing the
\* subscriber's filter reads the next frame if one is queued and otherwise
\* fails with "filtered, nothing queued"; so a frame that meets the filter,
\* queued behind fewer than 1024 valid frames that do not, is what the call
\* returns.
record_field(records, key) ==
    IF \E i \in 1..Len(records) : starts_with(records[i], key \o <<"=">>)
    THEN strip_prefix(records[CHOOSE i \in 1..Len(records) :
                                 starts_with(records[i], key \o <<"=">>)],
                      key \o <<"=">>).val
    ELSE <<>>

frame_meets_filter(m, frame) ==
    Let(nulstr_keys(SliceFrom(frame.buf, frame_bufpos(frame.buf).val.bufpos)),
        LAMBDA records :
        \/ Len(m.filter_subsystem_list.list) = 0
        \/ \E i \in 1..Len(m.filter_subsystem_list.list) :
              /\ m.filter_subsystem_list.list[i].name = record_field(records, <<"S", "U", "B", "S", "Y", "S", "T", "E", "M">>)
              /\ \/ Len(m.filter_subsystem_list.list[i].value) = 0
                 \/ m.filter_subsystem_list.list[i].value = record_field(records, <<"D", "E", "V", "T", "Y", "P", "E">>))

skipped_then_tail ==
    /\ mon.last.called
    /\ mon.burst.n + (IF mon.burst.tail = NoFrame THEN 0 ELSE 1)
          = Len(mon.queue) + mon.last.attempts
    /\ receive_frame(mon.m, mon.sk, mon.burst.frame, mon.width).ok
    /\ ~frame_meets_filter(mon.m, mon.burst.frame)
    /\ Len(mon.m.filter_tag_list.list) = 0

C23_FilteredFramesAreSkipped ==
    skipped_then_tail
        => /\ (/\ mon.burst.tail = NoFrame
               /\ mon.burst.n \in 1..RECV_RETRIES)
                 => (~mon.last.ok /\ mon.last.err = "filtered"
                        /\ mon.last.attempts = mon.burst.n)
           /\ (/\ mon.burst.tail # NoFrame
               /\ mon.burst.n < RECV_RETRIES
               /\ receive_frame(mon.m, mon.sk, mon.burst.tail, mon.width).ok
               /\ frame_meets_filter(mon.m, mon.burst.tail))
                 => (mon.last.ok /\ mon.last.frame = mon.burst.tail
                        /\ Len(mon.queue) = 0)
\* C24: a call of receive_device that reads a unicast frame (nl_groups = 0)
\* of valid length takes it on to the remaining checks if
\* set_snl_trusted_sender was called before with the PID the frame comes
\* from, and rejects it as unicast otherwise: a frame from another PID, or
\* any unicast frame when no trusted sender was set.
C24_UnicastOnlyFromTrustedSender ==
    [][(/\ mon'.last # mon.last
        /\ mon'.last.called
        /\ mon'.last.frame # NoFrame
        /\ mon'.last.frame.nl_groups = 0
        /\ Len(mon'.last.frame.buf) >= MIN_FRAME_LEN
        /\ Len(mon'.last.frame.buf) <= RECV_BUF_LEN)
          => IF mon.trusted_set /\ mon'.last.frame.nl_pid \in TrustedPids
             THEN mon'.last.err # "unicast"
             ELSE ~mon'.last.ok /\ mon'.last.err = "unicast"]_vars
\* C25: the sysattr matcher of a scan accepts a device exactly when no entry
\* of the no-match list matches it and every entry of the match list matches
\* it; with both lists empty it accepts every device.
sysattr_entry_matches(sysfs, dev, entry) ==
    match_sysattr_value(sysfs, dev, entry.name, entry.value).ret

C25_SysattrMatcherAsSpecified ==
    en.scanned =>
        \A syspath \in en.sysfs.exists :
            Let(new_from_syspath(en.sysfs, syspath), LAMBDA d :
                d.ok =>
                    (match_sysattr(en.e, en.sysfs, d.val).ret
                        <=> /\ \A i \in 1..Len(en.e.sysattr_nomatch_list.list) :
                                  ~sysattr_entry_matches(en.sysfs, d.val,
                                                         en.e.sysattr_nomatch_list.list[i])
                            /\ \A i \in 1..Len(en.e.sysattr_match_list.list) :
                                  sysattr_entry_matches(en.sysfs, d.val,
                                                        en.e.sysattr_match_list.list[i])))
\* C26: a scan by tags whose tag directories can all be opened does not
\* fail, whatever their entries: an entry that cannot be lifted to a device
\* is skipped, and every other entry whose device passes the filters is
\* added to the devices.
tag_dir(tag) ==
    UDEV_ROOT_RUN \o <<"/", "u", "d", "e", "v", "/", "t", "a", "g", "s", "/">> \o tag

C26_StaleTagEntryIsSkipped ==
    (/\ en.scanned
     /\ Len(en.e.tags_match_list.list) > 0
     /\ \A t \in 1..Len(en.e.tags_match_list.list) :
           tag_dir(en.e.tags_match_list.list[t].name) \in DOMAIN en.dirs)
        => /\ en.ok
           /\ \A t \in 1..Len(en.e.tags_match_list.list) :
                 Let(en.dirs[tag_dir(en.e.tags_match_list.list[t].name)], LAMBDA names :
                     \A k \in 1..Len(names) :
                         Let(new_from_device_id(en.sysfs, names[k]), LAMBDA dev :
                             (/\ Len(names[k]) > 0
                              /\ ~starts_with(names[k], <<".">>)
                              /\ dev.ok
                              /\ tags_filters_accept(en.e, en.sysfs, dev.val))
                                => \E j \in 1..Len(en.e.devices) :
                                      en.e.devices[j] = dev.val.syspath))
\* C27: every call of get_id_filename, the first and a repeated one, returns
\* the ID of the device by the rules in their order: nothing for no
\* subsystem, b<major>:<minor> (block) or c<major>:<minor> for a major above
\* 0, n<ifindex> for an ifindex above 0, +<subsystem>:<basename of devpath>
\* otherwise.
id_by_rules(dev) ==
    IF Len(dev.subsystem) = 0 THEN <<>>
    ELSE IF major(dev.devnum) > 0
    THEN <<IF dev.subsystem = STR_block THEN "b" ELSE "c">>
            \o to_string(major(dev.devnum)) \o <<":">> \o to_string(minor(dev.devnum))
    ELSE IF dev.ifindex > 0 THEN <<"n">> \o to_string(dev.ifindex)
    ELSE <<"+">> \o dev.subsystem \o <<":">> \o rsplit_first(dev.devpath, "/")

C27_EveryCallReturnsTheId ==
    /\ did.id_built => did.id = id_by_rules(did.dev)
    /\ did.again => did.id_again = id_by_rules(did.dev)
\* C28: whatever properties were added and removed through
\* add_property_from_string, and whenever get_properties_monitor_buf was
\* called in between, the buffer it returns is `KEY=VALUE\0` for each current
\* property in list order, without the names that start with "." and without
\* what comes after the first 128 of the others.
public_entries(entries) ==
    SelectSeq(entries, LAMBDA e : Len(e.name) = 0 \/ e.name[1] # ".")

RECURSIVE serialized(_, _, _)
serialized(entries, lo, hi) ==
    IF lo > hi THEN <<>>
    ELSE IF lo = hi THEN entries[lo].name \o <<"=">> \o entries[lo].value \o <<"NUL">>
    ELSE serialized(entries, lo, (lo + hi) \div 2)
         \o serialized(entries, ((lo + hi) \div 2) + 1, hi)

first_128(entries) == SubSeq(entries, 1, IF Len(entries) > 128 THEN 128 ELSE Len(entries))

C28_MonitorBufIsCurrent ==
    pb.got =>
        Let(first_128(public_entries(pb.dev.properties_list.list)), LAMBDA current :
            pb.buf = serialized(current, 1, Len(current)))

C28_Witness ==
    /\ pb.got
    /\ pb.touched_after_get
    /\ Len(public_entries(pb.dev.properties_list.list)) > 128
    /\ Len(public_entries(pb.dev.properties_list.list)) < Len(pb.dev.properties_list.list)
    /\ pb.buf # <<>>
\* The value of the line KEY=... of a uevent file, "" if there is none.
uevent_field(file, key) ==
    IF \E i \in 1..Len(file) : starts_with(file[i], key \o <<"=">>)
    THEN Let(CHOOSE i \in 1..Len(file) : starts_with(file[i], key \o <<"=">>), LAMBDA i :
             SubSeq(file[i], Len(key) + 2, Len(file[i]) - 1))
    ELSE <<>>

uevent_number(file, key) ==
    IF Len(uevent_field(file, key)) = 0 THEN 0 ELSE digits_value(uevent_field(file, key), 0)

\* C29: on a device created from a syspath, with uevent_loaded as the
\* constructor left it, once a getter (get_devtype, get_devnum, get_ifindex,
\* get_devnode) has returned, the uevent file was opened exactly once,
\* uevent_loaded is set and devtype, devnode, ifindex and devnum hold what the
\* file says.
C29_FirstGetterLoadsUevent ==
    (ue.fresh /\ ue.calls >= 1 /\ ~ue.hung) =>
        Let(ue.sysfs.uevent[ue.dev.syspath], LAMBDA file :
            /\ ue.opened = 1
            /\ ue.dev.uevent_loaded
            /\ ue.dev.devtype = uevent_field(file, <<"D", "E", "V", "T", "Y", "P", "E">>)
            /\ ue.dev.devnode = uevent_field(file, <<"D", "E", "V", "N", "A", "M", "E">>)
            /\ ue.dev.ifindex = uevent_number(file, <<"I", "F", "I", "N", "D", "E", "X">>)
            /\ ue.dev.devnum = makedev(uevent_number(file, <<"M", "A", "J", "O", "R">>),
                                       uevent_number(file, <<"M", "I", "N", "O", "R">>)))
\* C30: once read_uevent_file has opened the file and entered its read loop,
\* the loop ends and the function returns, whatever the lines of the file and
\* their order.
C30_ReadLoopTerminates == (ul.pc = "loop") ~> (ul.pc = "done")
=============================================================================
